---- MODULE Spec2Model ----
(***************************************************************************)
(* Model of kalamine's XKBManager (src/kalamine/xkb_manager.py): the Index *)
(* of pending changes, the rewrite of xkb/symbols/<locale> files between   *)
(* KALAMINE markers, and the update of xkb/rules/{base,evdev}.xml.         *)
(*                                                                         *)
(* A Python str is the sequence of the code points of its characters (Len, *)
(* SubSeq and \o act on it, "" is << >>), a Python dict is the sequence of *)
(* its items in insertion order, and an XML tree is the sequence of its    *)
(* layout nodes.  The TLA+ strings are the labels of the model: the class  *)
(* of an exception, the step of a run, the operation of a log entry.       *)
(***************************************************************************)
EXTENDS Integers, Sequences, FiniteSets, TLC

VARIABLES as_root, index, symbols, rules, outcome, log, committed, commits, listed

vars == <<as_root, index, symbols, rules, outcome, log, committed, commits, listed>>

-----------------------------------------------------------------------------
(* Python str literals *)

\* ord(c) of the characters a literal of the model is written with: those of
\* U+0020 to U+005F and of U+0061 to U+007E, in the order of their code
\* points, and four control characters
ord ==
  LET Printable == " !\"#$%&'()*+,-./0123456789:;<=>?@ABCDEFGHIJKLMNOPQRSTUVWXYZ[\\]^_"
      PrintableLower == "abcdefghijklmnopqrstuvwxyz{|}~"
  IN
  [c \in { SubSeq(Printable, i, i) : i \in 1..Len(Printable) }
           \cup { SubSeq(PrintableLower, i, i) : i \in 1..Len(PrintableLower) }
           \cup {"\t", "\n", "\f", "\r"} |->
     IF c = "\t" THEN 9
     ELSE IF c = "\n" THEN 10
     ELSE IF c = "\f" THEN 12
     ELSE IF c = "\r" THEN 13
     ELSE IF \E i \in 1..Len(Printable) : SubSeq(Printable, i, i) = c
          THEN 31 + CHOOSE i \in 1..Len(Printable) : SubSeq(Printable, i, i) = c
          ELSE 96 + CHOOSE i \in 1..Len(PrintableLower) : SubSeq(PrintableLower, i, i) = c]

\* the str a literal stands for: "fr" is 'fr', the code points 102, 114
RECURSIVE Str(_)
Str(literal) ==
  IF literal = "" THEN << >>
  ELSE << ord[SubSeq(literal, 1, 1)] >> \o Str(SubSeq(literal, 2, Len(literal)))

-----------------------------------------------------------------------------
(* Python str operations *)

StartsWith(s, p) == Len(p) <= Len(s) /\ SubSeq(s, 1, Len(p)) = p

EndsWith(s, p) == Len(p) <= Len(s) /\ SubSeq(s, Len(s) - Len(p) + 1, Len(s)) = p

\* s[a:] for a >= 0
DropFirst(s, a) == SubSeq(s, a + 1, Len(s))

\* s[:-b] for b > 0
DropLast(s, b) == SubSeq(s, 1, Len(s) - b)

\* The case mappings of str.upper() and str.lower() are those of the Unicode
\* data of the interpreter (Python 3.11, Unicode 14.0.0), for the code points
\* U+0000 to U+10FFFF.

\* str.upper() of the characters that become one other character: the code
\* points lo, lo + step, .. hi become themselves plus delta, as
\* <<lo, hi, step, delta>>
UpperRanges ==
  { <<97, 122, 1, -32>>, <<181, 181, 1, 743>>, <<224, 246, 1, -32>>,
    <<248, 254, 1, -32>>, <<255, 255, 1, 121>>, <<257, 303, 2, -1>>,
    <<305, 305, 1, -232>>, <<307, 311, 2, -1>>, <<314, 328, 2, -1>>,
    <<331, 375, 2, -1>>, <<378, 382, 2, -1>>, <<383, 383, 1, -300>>,
    <<384, 384, 1, 195>>, <<387, 389, 2, -1>>, <<392, 392, 1, -1>>,
    <<396, 396, 1, -1>>, <<402, 402, 1, -1>>, <<405, 405, 1, 97>>,
    <<409, 409, 1, -1>>, <<410, 410, 1, 163>>, <<414, 414, 1, 130>>,
    <<417, 421, 2, -1>>, <<424, 424, 1, -1>>, <<429, 429, 1, -1>>,
    <<432, 432, 1, -1>>, <<436, 438, 2, -1>>, <<441, 441, 1, -1>>,
    <<445, 445, 1, -1>>, <<447, 447, 1, 56>>, <<453, 453, 1, -1>>,
    <<454, 454, 1, -2>>, <<456, 456, 1, -1>>, <<457, 457, 1, -2>>,
    <<459, 459, 1, -1>>, <<460, 460, 1, -2>>, <<462, 476, 2, -1>>,
    <<477, 477, 1, -79>>, <<479, 495, 2, -1>>, <<498, 498, 1, -1>>,
    <<499, 499, 1, -2>>, <<501, 501, 1, -1>>, <<505, 543, 2, -1>>,
    <<547, 563, 2, -1>>, <<572, 572, 1, -1>>, <<575, 576, 1, 10815>>,
    <<578, 578, 1, -1>>, <<583, 591, 2, -1>>, <<592, 592, 1, 10783>>,
    <<593, 593, 1, 10780>>, <<594, 594, 1, 10782>>, <<595, 595, 1, -210>>,
    <<596, 596, 1, -206>>, <<598, 599, 1, -205>>, <<601, 601, 1, -202>>,
    <<603, 603, 1, -203>>, <<604, 604, 1, 42319>>, <<608, 608, 1, -205>>,
    <<609, 609, 1, 42315>>, <<611, 611, 1, -207>>, <<613, 613, 1, 42280>>,
    <<614, 614, 1, 42308>>, <<616, 616, 1, -209>>, <<617, 617, 1, -211>>,
    <<618, 618, 1, 42308>>, <<619, 619, 1, 10743>>, <<620, 620, 1, 42305>>,
    <<623, 623, 1, -211>>, <<625, 625, 1, 10749>>, <<626, 626, 1, -213>>,
    <<629, 629, 1, -214>>, <<637, 637, 1, 10727>>, <<640, 640, 1, -218>>,
    <<642, 642, 1, 42307>>, <<643, 643, 1, -218>>, <<647, 647, 1, 42282>>,
    <<648, 648, 1, -218>>, <<649, 649, 1, -69>>, <<650, 651, 1, -217>>,
    <<652, 652, 1, -71>>, <<658, 658, 1, -219>>, <<669, 669, 1, 42261>>,
    <<670, 670, 1, 42258>>, <<837, 837, 1, 84>>, <<881, 883, 2, -1>>,
    <<887, 887, 1, -1>>, <<891, 893, 1, 130>>, <<940, 940, 1, -38>>,
    <<941, 943, 1, -37>>, <<945, 961, 1, -32>>, <<962, 962, 1, -31>>,
    <<963, 971, 1, -32>>, <<972, 972, 1, -64>>, <<973, 974, 1, -63>>,
    <<976, 976, 1, -62>>, <<977, 977, 1, -57>>, <<981, 981, 1, -47>>,
    <<982, 982, 1, -54>>, <<983, 983, 1, -8>>, <<985, 1007, 2, -1>>,
    <<1008, 1008, 1, -86>>, <<1009, 1009, 1, -80>>, <<1010, 1010, 1, 7>>,
    <<1011, 1011, 1, -116>>, <<1013, 1013, 1, -96>>, <<1016, 1016, 1, -1>>,
    <<1019, 1019, 1, -1>>, <<1072, 1103, 1, -32>>, <<1104, 1119, 1, -80>>,
    <<1121, 1153, 2, -1>>, <<1163, 1215, 2, -1>>, <<1218, 1230, 2, -1>>,
    <<1231, 1231, 1, -15>>, <<1233, 1327, 2, -1>>, <<1377, 1414, 1, -48>>,
    <<4304, 4346, 1, 3008>>, <<4349, 4351, 1, 3008>>, <<5112, 5117, 1, -8>>,
    <<7296, 7296, 1, -6254>>, <<7297, 7297, 1, -6253>>,
    <<7298, 7298, 1, -6244>>, <<7299, 7300, 1, -6242>>,
    <<7301, 7301, 1, -6243>>, <<7302, 7302, 1, -6236>>,
    <<7303, 7303, 1, -6181>>, <<7304, 7304, 1, 35266>>,
    <<7545, 7545, 1, 35332>>, <<7549, 7549, 1, 3814>>,
    <<7566, 7566, 1, 35384>>, <<7681, 7829, 2, -1>>, <<7835, 7835, 1, -59>>,
    <<7841, 7935, 2, -1>>, <<7936, 7943, 1, 8>>, <<7952, 7957, 1, 8>>,
    <<7968, 7975, 1, 8>>, <<7984, 7991, 1, 8>>, <<8000, 8005, 1, 8>>,
    <<8017, 8023, 2, 8>>, <<8032, 8039, 1, 8>>, <<8048, 8049, 1, 74>>,
    <<8050, 8053, 1, 86>>, <<8054, 8055, 1, 100>>, <<8056, 8057, 1, 128>>,
    <<8058, 8059, 1, 112>>, <<8060, 8061, 1, 126>>, <<8112, 8113, 1, 8>>,
    <<8126, 8126, 1, -7205>>, <<8144, 8145, 1, 8>>, <<8160, 8161, 1, 8>>,
    <<8165, 8165, 1, 7>>, <<8526, 8526, 1, -28>>, <<8560, 8575, 1, -16>>,
    <<8580, 8580, 1, -1>>, <<9424, 9449, 1, -26>>, <<11312, 11359, 1, -48>>,
    <<11361, 11361, 1, -1>>, <<11365, 11365, 1, -10795>>,
    <<11366, 11366, 1, -10792>>, <<11368, 11372, 2, -1>>,
    <<11379, 11379, 1, -1>>, <<11382, 11382, 1, -1>>, <<11393, 11491, 2, -1>>,
    <<11500, 11502, 2, -1>>, <<11507, 11507, 1, -1>>,
    <<11520, 11557, 1, -7264>>, <<11559, 11559, 1, -7264>>,
    <<11565, 11565, 1, -7264>>, <<42561, 42605, 2, -1>>,
    <<42625, 42651, 2, -1>>, <<42787, 42799, 2, -1>>, <<42803, 42863, 2, -1>>,
    <<42874, 42876, 2, -1>>, <<42879, 42887, 2, -1>>, <<42892, 42892, 1, -1>>,
    <<42897, 42899, 2, -1>>, <<42900, 42900, 1, 48>>, <<42903, 42921, 2, -1>>,
    <<42933, 42947, 2, -1>>, <<42952, 42954, 2, -1>>, <<42961, 42961, 1, -1>>,
    <<42967, 42969, 2, -1>>, <<42998, 42998, 1, -1>>,
    <<43859, 43859, 1, -928>>, <<43888, 43967, 1, -38864>>,
    <<65345, 65370, 1, -32>>, <<66600, 66639, 1, -40>>,
    <<66776, 66811, 1, -40>>, <<66967, 66977, 1, -39>>,
    <<66979, 66993, 1, -39>>, <<66995, 67001, 1, -39>>,
    <<67003, 67004, 1, -39>>, <<68800, 68850, 1, -64>>,
    <<71872, 71903, 1, -32>>, <<93792, 93823, 1, -32>>,
    <<125218, 125251, 1, -34>> }

\* str.upper() of the characters that become more than one character ('ß' is
\* 223 and becomes 'SS'), as <<code point, str>>
UpperSpecial ==
  { <<223, <<83, 83>>>>, <<329, <<700, 78>>>>, <<496, <<74, 780>>>>,
    <<912, <<921, 776, 769>>>>, <<944, <<933, 776, 769>>>>,
    <<1415, <<1333, 1362>>>>, <<7830, <<72, 817>>>>, <<7831, <<84, 776>>>>,
    <<7832, <<87, 778>>>>, <<7833, <<89, 778>>>>, <<7834, <<65, 702>>>>,
    <<8016, <<933, 787>>>>, <<8018, <<933, 787, 768>>>>,
    <<8020, <<933, 787, 769>>>>, <<8022, <<933, 787, 834>>>>,
    <<8064, <<7944, 921>>>>, <<8065, <<7945, 921>>>>, <<8066, <<7946, 921>>>>,
    <<8067, <<7947, 921>>>>, <<8068, <<7948, 921>>>>, <<8069, <<7949, 921>>>>,
    <<8070, <<7950, 921>>>>, <<8071, <<7951, 921>>>>, <<8072, <<7944, 921>>>>,
    <<8073, <<7945, 921>>>>, <<8074, <<7946, 921>>>>, <<8075, <<7947, 921>>>>,
    <<8076, <<7948, 921>>>>, <<8077, <<7949, 921>>>>, <<8078, <<7950, 921>>>>,
    <<8079, <<7951, 921>>>>, <<8080, <<7976, 921>>>>, <<8081, <<7977, 921>>>>,
    <<8082, <<7978, 921>>>>, <<8083, <<7979, 921>>>>, <<8084, <<7980, 921>>>>,
    <<8085, <<7981, 921>>>>, <<8086, <<7982, 921>>>>, <<8087, <<7983, 921>>>>,
    <<8088, <<7976, 921>>>>, <<8089, <<7977, 921>>>>, <<8090, <<7978, 921>>>>,
    <<8091, <<7979, 921>>>>, <<8092, <<7980, 921>>>>, <<8093, <<7981, 921>>>>,
    <<8094, <<7982, 921>>>>, <<8095, <<7983, 921>>>>, <<8096, <<8040, 921>>>>,
    <<8097, <<8041, 921>>>>, <<8098, <<8042, 921>>>>, <<8099, <<8043, 921>>>>,
    <<8100, <<8044, 921>>>>, <<8101, <<8045, 921>>>>, <<8102, <<8046, 921>>>>,
    <<8103, <<8047, 921>>>>, <<8104, <<8040, 921>>>>, <<8105, <<8041, 921>>>>,
    <<8106, <<8042, 921>>>>, <<8107, <<8043, 921>>>>, <<8108, <<8044, 921>>>>,
    <<8109, <<8045, 921>>>>, <<8110, <<8046, 921>>>>, <<8111, <<8047, 921>>>>,
    <<8114, <<8122, 921>>>>, <<8115, <<913, 921>>>>, <<8116, <<902, 921>>>>,
    <<8118, <<913, 834>>>>, <<8119, <<913, 834, 921>>>>,
    <<8124, <<913, 921>>>>, <<8130, <<8138, 921>>>>, <<8131, <<919, 921>>>>,
    <<8132, <<905, 921>>>>, <<8134, <<919, 834>>>>,
    <<8135, <<919, 834, 921>>>>, <<8140, <<919, 921>>>>,
    <<8146, <<921, 776, 768>>>>, <<8147, <<921, 776, 769>>>>,
    <<8150, <<921, 834>>>>, <<8151, <<921, 776, 834>>>>,
    <<8162, <<933, 776, 768>>>>, <<8163, <<933, 776, 769>>>>,
    <<8164, <<929, 787>>>>, <<8166, <<933, 834>>>>,
    <<8167, <<933, 776, 834>>>>, <<8178, <<8186, 921>>>>,
    <<8179, <<937, 921>>>>, <<8180, <<911, 921>>>>, <<8182, <<937, 834>>>>,
    <<8183, <<937, 834, 921>>>>, <<8188, <<937, 921>>>>,
    <<64256, <<70, 70>>>>, <<64257, <<70, 73>>>>, <<64258, <<70, 76>>>>,
    <<64259, <<70, 70, 73>>>>, <<64260, <<70, 70, 76>>>>,
    <<64261, <<83, 84>>>>, <<64262, <<83, 84>>>>, <<64275, <<1348, 1350>>>>,
    <<64276, <<1348, 1333>>>>, <<64277, <<1348, 1339>>>>,
    <<64278, <<1358, 1350>>>>, <<64279, <<1348, 1341>>>> }

\* str.lower() of the characters that become one other character, as
\* <<lo, hi, step, delta>>
LowerRanges ==
  { <<65, 90, 1, 32>>, <<192, 214, 1, 32>>, <<216, 222, 1, 32>>,
    <<256, 302, 2, 1>>, <<306, 310, 2, 1>>, <<313, 327, 2, 1>>,
    <<330, 374, 2, 1>>, <<376, 376, 1, -121>>, <<377, 381, 2, 1>>,
    <<385, 385, 1, 210>>, <<386, 388, 2, 1>>, <<390, 390, 1, 206>>,
    <<391, 391, 1, 1>>, <<393, 394, 1, 205>>, <<395, 395, 1, 1>>,
    <<398, 398, 1, 79>>, <<399, 399, 1, 202>>, <<400, 400, 1, 203>>,
    <<401, 401, 1, 1>>, <<403, 403, 1, 205>>, <<404, 404, 1, 207>>,
    <<406, 406, 1, 211>>, <<407, 407, 1, 209>>, <<408, 408, 1, 1>>,
    <<412, 412, 1, 211>>, <<413, 413, 1, 213>>, <<415, 415, 1, 214>>,
    <<416, 420, 2, 1>>, <<422, 422, 1, 218>>, <<423, 423, 1, 1>>,
    <<425, 425, 1, 218>>, <<428, 428, 1, 1>>, <<430, 430, 1, 218>>,
    <<431, 431, 1, 1>>, <<433, 434, 1, 217>>, <<435, 437, 2, 1>>,
    <<439, 439, 1, 219>>, <<440, 440, 1, 1>>, <<444, 444, 1, 1>>,
    <<452, 452, 1, 2>>, <<453, 453, 1, 1>>, <<455, 455, 1, 2>>,
    <<456, 456, 1, 1>>, <<458, 458, 1, 2>>, <<459, 475, 2, 1>>,
    <<478, 494, 2, 1>>, <<497, 497, 1, 2>>, <<498, 500, 2, 1>>,
    <<502, 502, 1, -97>>, <<503, 503, 1, -56>>, <<504, 542, 2, 1>>,
    <<544, 544, 1, -130>>, <<546, 562, 2, 1>>, <<570, 570, 1, 10795>>,
    <<571, 571, 1, 1>>, <<573, 573, 1, -163>>, <<574, 574, 1, 10792>>,
    <<577, 577, 1, 1>>, <<579, 579, 1, -195>>, <<580, 580, 1, 69>>,
    <<581, 581, 1, 71>>, <<582, 590, 2, 1>>, <<880, 882, 2, 1>>,
    <<886, 886, 1, 1>>, <<895, 895, 1, 116>>, <<902, 902, 1, 38>>,
    <<904, 906, 1, 37>>, <<908, 908, 1, 64>>, <<910, 911, 1, 63>>,
    <<913, 929, 1, 32>>, <<931, 939, 1, 32>>, <<975, 975, 1, 8>>,
    <<984, 1006, 2, 1>>, <<1012, 1012, 1, -60>>, <<1015, 1015, 1, 1>>,
    <<1017, 1017, 1, -7>>, <<1018, 1018, 1, 1>>, <<1021, 1023, 1, -130>>,
    <<1024, 1039, 1, 80>>, <<1040, 1071, 1, 32>>, <<1120, 1152, 2, 1>>,
    <<1162, 1214, 2, 1>>, <<1216, 1216, 1, 15>>, <<1217, 1229, 2, 1>>,
    <<1232, 1326, 2, 1>>, <<1329, 1366, 1, 48>>, <<4256, 4293, 1, 7264>>,
    <<4295, 4295, 1, 7264>>, <<4301, 4301, 1, 7264>>,
    <<5024, 5103, 1, 38864>>, <<5104, 5109, 1, 8>>, <<7312, 7354, 1, -3008>>,
    <<7357, 7359, 1, -3008>>, <<7680, 7828, 2, 1>>, <<7838, 7838, 1, -7615>>,
    <<7840, 7934, 2, 1>>, <<7944, 7951, 1, -8>>, <<7960, 7965, 1, -8>>,
    <<7976, 7983, 1, -8>>, <<7992, 7999, 1, -8>>, <<8008, 8013, 1, -8>>,
    <<8025, 8031, 2, -8>>, <<8040, 8047, 1, -8>>, <<8072, 8079, 1, -8>>,
    <<8088, 8095, 1, -8>>, <<8104, 8111, 1, -8>>, <<8120, 8121, 1, -8>>,
    <<8122, 8123, 1, -74>>, <<8124, 8124, 1, -9>>, <<8136, 8139, 1, -86>>,
    <<8140, 8140, 1, -9>>, <<8152, 8153, 1, -8>>, <<8154, 8155, 1, -100>>,
    <<8168, 8169, 1, -8>>, <<8170, 8171, 1, -112>>, <<8172, 8172, 1, -7>>,
    <<8184, 8185, 1, -128>>, <<8186, 8187, 1, -126>>, <<8188, 8188, 1, -9>>,
    <<8486, 8486, 1, -7517>>, <<8490, 8490, 1, -8383>>,
    <<8491, 8491, 1, -8262>>, <<8498, 8498, 1, 28>>, <<8544, 8559, 1, 16>>,
    <<8579, 8579, 1, 1>>, <<9398, 9423, 1, 26>>, <<11264, 11311, 1, 48>>,
    <<11360, 11360, 1, 1>>, <<11362, 11362, 1, -10743>>,
    <<11363, 11363, 1, -3814>>, <<11364, 11364, 1, -10727>>,
    <<11367, 11371, 2, 1>>, <<11373, 11373, 1, -10780>>,
    <<11374, 11374, 1, -10749>>, <<11375, 11375, 1, -10783>>,
    <<11376, 11376, 1, -10782>>, <<11378, 11378, 1, 1>>,
    <<11381, 11381, 1, 1>>, <<11390, 11391, 1, -10815>>,
    <<11392, 11490, 2, 1>>, <<11499, 11501, 2, 1>>, <<11506, 11506, 1, 1>>,
    <<42560, 42604, 2, 1>>, <<42624, 42650, 2, 1>>, <<42786, 42798, 2, 1>>,
    <<42802, 42862, 2, 1>>, <<42873, 42875, 2, 1>>,
    <<42877, 42877, 1, -35332>>, <<42878, 42886, 2, 1>>,
    <<42891, 42891, 1, 1>>, <<42893, 42893, 1, -42280>>,
    <<42896, 42898, 2, 1>>, <<42902, 42920, 2, 1>>,
    <<42922, 42922, 1, -42308>>, <<42923, 42923, 1, -42319>>,
    <<42924, 42924, 1, -42315>>, <<42925, 42925, 1, -42305>>,
    <<42926, 42926, 1, -42308>>, <<42928, 42928, 1, -42258>>,
    <<42929, 42929, 1, -42282>>, <<42930, 42930, 1, -42261>>,
    <<42931, 42931, 1, 928>>, <<42932, 42946, 2, 1>>,
    <<42948, 42948, 1, -48>>, <<42949, 42949, 1, -42307>>,
    <<42950, 42950, 1, -35384>>, <<42951, 42953, 2, 1>>,
    <<42960, 42960, 1, 1>>, <<42966, 42968, 2, 1>>, <<42997, 42997, 1, 1>>,
    <<65313, 65338, 1, 32>>, <<66560, 66599, 1, 40>>, <<66736, 66771, 1, 40>>,
    <<66928, 66938, 1, 39>>, <<66940, 66954, 1, 39>>, <<66956, 66962, 1, 39>>,
    <<66964, 66965, 1, 39>>, <<68736, 68786, 1, 64>>, <<71840, 71871, 1, 32>>,
    <<93760, 93791, 1, 32>>, <<125184, 125217, 1, 34>> }

\* str.lower() of the character that becomes two
LowerSpecial ==
  { <<304, <<105, 775>>>> }

\* the case-ignorable characters, as <<lo, hi>>: str.lower() looks through
\* them for the cased character before and after a capital sigma
CaseIgnorableRanges ==
  { <<39, 39>>, <<46, 46>>, <<58, 58>>, <<94, 94>>, <<96, 96>>, <<168, 168>>,
    <<173, 173>>, <<175, 175>>, <<180, 180>>, <<183, 184>>, <<688, 879>>,
    <<884, 885>>, <<890, 890>>, <<900, 901>>, <<903, 903>>, <<1155, 1161>>,
    <<1369, 1369>>, <<1375, 1375>>, <<1425, 1469>>, <<1471, 1471>>,
    <<1473, 1474>>, <<1476, 1477>>, <<1479, 1479>>, <<1524, 1524>>,
    <<1536, 1541>>, <<1552, 1562>>, <<1564, 1564>>, <<1600, 1600>>,
    <<1611, 1631>>, <<1648, 1648>>, <<1750, 1757>>, <<1759, 1768>>,
    <<1770, 1773>>, <<1807, 1807>>, <<1809, 1809>>, <<1840, 1866>>,
    <<1958, 1968>>, <<2027, 2037>>, <<2042, 2042>>, <<2045, 2045>>,
    <<2070, 2093>>, <<2137, 2139>>, <<2184, 2184>>, <<2192, 2193>>,
    <<2200, 2207>>, <<2249, 2306>>, <<2362, 2362>>, <<2364, 2364>>,
    <<2369, 2376>>, <<2381, 2381>>, <<2385, 2391>>, <<2402, 2403>>,
    <<2417, 2417>>, <<2433, 2433>>, <<2492, 2492>>, <<2497, 2500>>,
    <<2509, 2509>>, <<2530, 2531>>, <<2558, 2558>>, <<2561, 2562>>,
    <<2620, 2620>>, <<2625, 2626>>, <<2631, 2632>>, <<2635, 2637>>,
    <<2641, 2641>>, <<2672, 2673>>, <<2677, 2677>>, <<2689, 2690>>,
    <<2748, 2748>>, <<2753, 2757>>, <<2759, 2760>>, <<2765, 2765>>,
    <<2786, 2787>>, <<2810, 2815>>, <<2817, 2817>>, <<2876, 2876>>,
    <<2879, 2879>>, <<2881, 2884>>, <<2893, 2893>>, <<2901, 2902>>,
    <<2914, 2915>>, <<2946, 2946>>, <<3008, 3008>>, <<3021, 3021>>,
    <<3072, 3072>>, <<3076, 3076>>, <<3132, 3132>>, <<3134, 3136>>,
    <<3142, 3144>>, <<3146, 3149>>, <<3157, 3158>>, <<3170, 3171>>,
    <<3201, 3201>>, <<3260, 3260>>, <<3263, 3263>>, <<3270, 3270>>,
    <<3276, 3277>>, <<3298, 3299>>, <<3328, 3329>>, <<3387, 3388>>,
    <<3393, 3396>>, <<3405, 3405>>, <<3426, 3427>>, <<3457, 3457>>,
    <<3530, 3530>>, <<3538, 3540>>, <<3542, 3542>>, <<3633, 3633>>,
    <<3636, 3642>>, <<3654, 3662>>, <<3761, 3761>>, <<3764, 3772>>,
    <<3782, 3782>>, <<3784, 3789>>, <<3864, 3865>>, <<3893, 3893>>,
    <<3895, 3895>>, <<3897, 3897>>, <<3953, 3966>>, <<3968, 3972>>,
    <<3974, 3975>>, <<3981, 3991>>, <<3993, 4028>>, <<4038, 4038>>,
    <<4141, 4144>>, <<4146, 4151>>, <<4153, 4154>>, <<4157, 4158>>,
    <<4184, 4185>>, <<4190, 4192>>, <<4209, 4212>>, <<4226, 4226>>,
    <<4229, 4230>>, <<4237, 4237>>, <<4253, 4253>>, <<4348, 4348>>,
    <<4957, 4959>>, <<5906, 5908>>, <<5938, 5939>>, <<5970, 5971>>,
    <<6002, 6003>>, <<6068, 6069>>, <<6071, 6077>>, <<6086, 6086>>,
    <<6089, 6099>>, <<6103, 6103>>, <<6109, 6109>>, <<6155, 6159>>,
    <<6211, 6211>>, <<6277, 6278>>, <<6313, 6313>>, <<6432, 6434>>,
    <<6439, 6440>>, <<6450, 6450>>, <<6457, 6459>>, <<6679, 6680>>,
    <<6683, 6683>>, <<6742, 6742>>, <<6744, 6750>>, <<6752, 6752>>,
    <<6754, 6754>>, <<6757, 6764>>, <<6771, 6780>>, <<6783, 6783>>,
    <<6823, 6823>>, <<6832, 6862>>, <<6912, 6915>>, <<6964, 6964>>,
    <<6966, 6970>>, <<6972, 6972>>, <<6978, 6978>>, <<7019, 7027>>,
    <<7040, 7041>>, <<7074, 7077>>, <<7080, 7081>>, <<7083, 7085>>,
    <<7142, 7142>>, <<7144, 7145>>, <<7149, 7149>>, <<7151, 7153>>,
    <<7212, 7219>>, <<7222, 7223>>, <<7288, 7293>>, <<7376, 7378>>,
    <<7380, 7392>>, <<7394, 7400>>, <<7405, 7405>>, <<7412, 7412>>,
    <<7416, 7417>>, <<7468, 7530>>, <<7544, 7544>>, <<7579, 7679>>,
    <<8125, 8125>>, <<8127, 8129>>, <<8141, 8143>>, <<8157, 8159>>,
    <<8173, 8175>>, <<8189, 8190>>, <<8203, 8207>>, <<8216, 8217>>,
    <<8228, 8228>>, <<8231, 8231>>, <<8234, 8238>>, <<8288, 8292>>,
    <<8294, 8303>>, <<8305, 8305>>, <<8319, 8319>>, <<8336, 8348>>,
    <<8400, 8432>>, <<11388, 11389>>, <<11503, 11505>>, <<11631, 11631>>,
    <<11647, 11647>>, <<11744, 11775>>, <<11823, 11823>>, <<12293, 12293>>,
    <<12330, 12333>>, <<12337, 12341>>, <<12347, 12347>>, <<12441, 12446>>,
    <<12540, 12542>>, <<40981, 40981>>, <<42232, 42237>>, <<42508, 42508>>,
    <<42607, 42610>>, <<42612, 42621>>, <<42623, 42623>>, <<42652, 42655>>,
    <<42736, 42737>>, <<42752, 42785>>, <<42864, 42864>>, <<42888, 42890>>,
    <<42994, 42996>>, <<43000, 43001>>, <<43010, 43010>>, <<43014, 43014>>,
    <<43019, 43019>>, <<43045, 43046>>, <<43052, 43052>>, <<43204, 43205>>,
    <<43232, 43249>>, <<43263, 43263>>, <<43302, 43309>>, <<43335, 43345>>,
    <<43392, 43394>>, <<43443, 43443>>, <<43446, 43449>>, <<43452, 43453>>,
    <<43471, 43471>>, <<43493, 43494>>, <<43561, 43566>>, <<43569, 43570>>,
    <<43573, 43574>>, <<43587, 43587>>, <<43596, 43596>>, <<43632, 43632>>,
    <<43644, 43644>>, <<43696, 43696>>, <<43698, 43700>>, <<43703, 43704>>,
    <<43710, 43711>>, <<43713, 43713>>, <<43741, 43741>>, <<43756, 43757>>,
    <<43763, 43764>>, <<43766, 43766>>, <<43867, 43871>>, <<43881, 43883>>,
    <<44005, 44005>>, <<44008, 44008>>, <<44013, 44013>>, <<64286, 64286>>,
    <<64434, 64450>>, <<65024, 65039>>, <<65043, 65043>>, <<65056, 65071>>,
    <<65106, 65106>>, <<65109, 65109>>, <<65279, 65279>>, <<65287, 65287>>,
    <<65294, 65294>>, <<65306, 65306>>, <<65342, 65342>>, <<65344, 65344>>,
    <<65392, 65392>>, <<65438, 65439>>, <<65507, 65507>>, <<65529, 65531>>,
    <<66045, 66045>>, <<66272, 66272>>, <<66422, 66426>>, <<67456, 67461>>,
    <<67463, 67504>>, <<67506, 67514>>, <<68097, 68099>>, <<68101, 68102>>,
    <<68108, 68111>>, <<68152, 68154>>, <<68159, 68159>>, <<68325, 68326>>,
    <<68900, 68903>>, <<69291, 69292>>, <<69446, 69456>>, <<69506, 69509>>,
    <<69633, 69633>>, <<69688, 69702>>, <<69744, 69744>>, <<69747, 69748>>,
    <<69759, 69761>>, <<69811, 69814>>, <<69817, 69818>>, <<69821, 69821>>,
    <<69826, 69826>>, <<69837, 69837>>, <<69888, 69890>>, <<69927, 69931>>,
    <<69933, 69940>>, <<70003, 70003>>, <<70016, 70017>>, <<70070, 70078>>,
    <<70089, 70092>>, <<70095, 70095>>, <<70191, 70193>>, <<70196, 70196>>,
    <<70198, 70199>>, <<70206, 70206>>, <<70367, 70367>>, <<70371, 70378>>,
    <<70400, 70401>>, <<70459, 70460>>, <<70464, 70464>>, <<70502, 70508>>,
    <<70512, 70516>>, <<70712, 70719>>, <<70722, 70724>>, <<70726, 70726>>,
    <<70750, 70750>>, <<70835, 70840>>, <<70842, 70842>>, <<70847, 70848>>,
    <<70850, 70851>>, <<71090, 71093>>, <<71100, 71101>>, <<71103, 71104>>,
    <<71132, 71133>>, <<71219, 71226>>, <<71229, 71229>>, <<71231, 71232>>,
    <<71339, 71339>>, <<71341, 71341>>, <<71344, 71349>>, <<71351, 71351>>,
    <<71453, 71455>>, <<71458, 71461>>, <<71463, 71467>>, <<71727, 71735>>,
    <<71737, 71738>>, <<71995, 71996>>, <<71998, 71998>>, <<72003, 72003>>,
    <<72148, 72151>>, <<72154, 72155>>, <<72160, 72160>>, <<72193, 72202>>,
    <<72243, 72248>>, <<72251, 72254>>, <<72263, 72263>>, <<72273, 72278>>,
    <<72281, 72283>>, <<72330, 72342>>, <<72344, 72345>>, <<72752, 72758>>,
    <<72760, 72765>>, <<72767, 72767>>, <<72850, 72871>>, <<72874, 72880>>,
    <<72882, 72883>>, <<72885, 72886>>, <<73009, 73014>>, <<73018, 73018>>,
    <<73020, 73021>>, <<73023, 73029>>, <<73031, 73031>>, <<73104, 73105>>,
    <<73109, 73109>>, <<73111, 73111>>, <<73459, 73460>>, <<78896, 78904>>,
    <<92912, 92916>>, <<92976, 92982>>, <<92992, 92995>>, <<94031, 94031>>,
    <<94095, 94111>>, <<94176, 94177>>, <<94179, 94180>>, <<110576, 110579>>,
    <<110581, 110587>>, <<110589, 110590>>, <<113821, 113822>>,
    <<113824, 113827>>, <<118528, 118573>>, <<118576, 118598>>,
    <<119143, 119145>>, <<119155, 119170>>, <<119173, 119179>>,
    <<119210, 119213>>, <<119362, 119364>>, <<121344, 121398>>,
    <<121403, 121452>>, <<121461, 121461>>, <<121476, 121476>>,
    <<121499, 121503>>, <<121505, 121519>>, <<122880, 122886>>,
    <<122888, 122904>>, <<122907, 122913>>, <<122915, 122916>>,
    <<122918, 122922>>, <<123184, 123197>>, <<123566, 123566>>,
    <<123628, 123631>>, <<125136, 125142>>, <<125252, 125259>>,
    <<127995, 127999>>, <<917505, 917505>>, <<917536, 917631>>,
    <<917760, 917999>> }

\* the cased characters among those that are not case-ignorable, as <<lo, hi>>
CasedRanges ==
  { <<65, 90>>, <<97, 122>>, <<170, 170>>, <<181, 181>>, <<186, 186>>,
    <<192, 214>>, <<216, 246>>, <<248, 442>>, <<444, 447>>, <<452, 659>>,
    <<661, 687>>, <<880, 883>>, <<886, 887>>, <<891, 893>>, <<895, 895>>,
    <<902, 902>>, <<904, 906>>, <<908, 908>>, <<910, 929>>, <<931, 1013>>,
    <<1015, 1153>>, <<1162, 1327>>, <<1329, 1366>>, <<1376, 1416>>,
    <<4256, 4293>>, <<4295, 4295>>, <<4301, 4301>>, <<4304, 4346>>,
    <<4349, 4351>>, <<5024, 5109>>, <<5112, 5117>>, <<7296, 7304>>,
    <<7312, 7354>>, <<7357, 7359>>, <<7424, 7467>>, <<7531, 7543>>,
    <<7545, 7578>>, <<7680, 7957>>, <<7960, 7965>>, <<7968, 8005>>,
    <<8008, 8013>>, <<8016, 8023>>, <<8025, 8025>>, <<8027, 8027>>,
    <<8029, 8029>>, <<8031, 8061>>, <<8064, 8116>>, <<8118, 8124>>,
    <<8126, 8126>>, <<8130, 8132>>, <<8134, 8140>>, <<8144, 8147>>,
    <<8150, 8155>>, <<8160, 8172>>, <<8178, 8180>>, <<8182, 8188>>,
    <<8450, 8450>>, <<8455, 8455>>, <<8458, 8467>>, <<8469, 8469>>,
    <<8473, 8477>>, <<8484, 8484>>, <<8486, 8486>>, <<8488, 8488>>,
    <<8490, 8493>>, <<8495, 8500>>, <<8505, 8505>>, <<8508, 8511>>,
    <<8517, 8521>>, <<8526, 8526>>, <<8544, 8575>>, <<8579, 8580>>,
    <<9398, 9449>>, <<11264, 11387>>, <<11390, 11492>>, <<11499, 11502>>,
    <<11506, 11507>>, <<11520, 11557>>, <<11559, 11559>>, <<11565, 11565>>,
    <<42560, 42605>>, <<42624, 42651>>, <<42786, 42863>>, <<42865, 42887>>,
    <<42891, 42894>>, <<42896, 42954>>, <<42960, 42961>>, <<42963, 42963>>,
    <<42965, 42969>>, <<42997, 42998>>, <<43002, 43002>>, <<43824, 43866>>,
    <<43872, 43880>>, <<43888, 43967>>, <<64256, 64262>>, <<64275, 64279>>,
    <<65313, 65338>>, <<65345, 65370>>, <<66560, 66639>>, <<66736, 66771>>,
    <<66776, 66811>>, <<66928, 66938>>, <<66940, 66954>>, <<66956, 66962>>,
    <<66964, 66965>>, <<66967, 66977>>, <<66979, 66993>>, <<66995, 67001>>,
    <<67003, 67004>>, <<68736, 68786>>, <<68800, 68850>>, <<71840, 71903>>,
    <<93760, 93823>>, <<119808, 119892>>, <<119894, 119964>>,
    <<119966, 119967>>, <<119970, 119970>>, <<119973, 119974>>,
    <<119977, 119980>>, <<119982, 119993>>, <<119995, 119995>>,
    <<119997, 120003>>, <<120005, 120069>>, <<120071, 120074>>,
    <<120077, 120084>>, <<120086, 120092>>, <<120094, 120121>>,
    <<120123, 120126>>, <<120128, 120132>>, <<120134, 120134>>,
    <<120138, 120144>>, <<120146, 120485>>, <<120488, 120512>>,
    <<120514, 120538>>, <<120540, 120570>>, <<120572, 120596>>,
    <<120598, 120628>>, <<120630, 120654>>, <<120656, 120686>>,
    <<120688, 120712>>, <<120714, 120744>>, <<120746, 120770>>,
    <<120772, 120779>>, <<122624, 122633>>, <<122635, 122654>>,
    <<125184, 125251>>, <<127280, 127305>>, <<127312, 127337>>,
    <<127344, 127369>> }

\* the case mapping the ranges <<lo, hi, step, delta>> and the pairs
\* <<code point, str>> stand for: a code point of a range becomes the one
\* delta further, a code point of a pair becomes the str of the pair
CaseMap(ranges, pairs) ==
  LET Changed == UNION { { r[1] + k * r[3] : k \in 0..((r[2] - r[1]) \div r[3]) } : r \in ranges }
  IN  [c \in Changed \cup { p[1] : p \in pairs } |->
         IF c \in Changed
         THEN << c + (CHOOSE r \in ranges : r[1] <= c /\ c <= r[2] /\ (c - r[1]) % r[3] = 0)[4] >>
         ELSE (CHOOSE p \in pairs : p[1] = c)[2]]

ToUpper == CaseMap(UpperRanges, UpperSpecial)

ToLower == CaseMap(LowerRanges, LowerSpecial)

\* str.upper() of one character
UpperChar(c) == IF c \in DOMAIN ToUpper THEN ToUpper[c] ELSE << c >>

\* str.lower() of one character that is not a capital sigma in a longer str
LowerChar(c) == IF c \in DOMAIN ToLower THEN ToLower[c] ELSE << c >>

CaseIgnorable(c) == \E r \in CaseIgnorableRanges : r[1] <= c /\ c <= r[2]

\* for a character that is not case-ignorable
Cased(c) == \E r \in CasedRanges : r[1] <= c /\ c <= r[2]

\* the position of the last character of s at or before j that is not
\* case-ignorable, 0 when there is none
RECURSIVE CasedBefore(_, _)
CasedBefore(s, j) == IF j = 0 \/ ~CaseIgnorable(s[j]) THEN j ELSE CasedBefore(s, j - 1)

\* the position of the first character of s at or after j that is not
\* case-ignorable, Len(s) + 1 when there is none
RECURSIVE CasedAfter(_, _)
CasedAfter(s, j) == IF j > Len(s) \/ ~CaseIgnorable(s[j]) THEN j ELSE CasedAfter(s, j + 1)

\* the capital sigma at position i of s ends a word: a cased character comes
\* before it and none after it, the case-ignorable characters looked through
FinalSigma(s, i) ==
  LET before == CasedBefore(s, i - 1)
      after  == CasedAfter(s, i + 1)
  IN  /\ before > 0 /\ Cased(s[before])
      /\ after > Len(s) \/ ~Cased(s[after])

RECURSIVE upper(_)
upper(s) == IF s = << >> THEN << >> ELSE UpperChar(Head(s)) \o upper(Tail(s))

\* str.lower() of s from position i on: a capital sigma (931) becomes the final
\* small sigma (962) where it ends a word and the small sigma (963) elsewhere
RECURSIVE LowerFrom(_, _)
LowerFrom(s, i) ==
  IF i > Len(s) THEN << >>
  ELSE (IF s[i] = 931 THEN << IF FinalSigma(s, i) THEN 962 ELSE 963 >> ELSE LowerChar(s[i]))
         \o LowerFrom(s, i + 1)

lower(s) == LowerFrom(s, 1)

\* the characters str.rstrip() strips, those str.isspace() holds of: \t, \n,
\* 0x0b, \f, \r, 0x1c to 0x1f, the space, 0x85, the no-break space 0xa0, and
\* U+1680, U+2000 to U+200A, U+2028, U+2029, U+202F, U+205F, U+3000
Whitespace ==
  (9..13) \cup (28..32) \cup {133, 160, 5760} \cup (8192..8202)
    \cup {8232, 8233, 8239, 8287, 12288}

RECURSIVE rstrip(_)
rstrip(s) ==
  IF s # << >> /\ s[Len(s)] \in Whitespace
  THEN rstrip(DropLast(s, 1))
  ELSE s

\* the line feed and the carriage return
LF == 10

CR == 13

\* position of the first "\n" of s at or after i, 0 when there is none
RECURSIVE FindNewline(_, _)
FindNewline(s, i) ==
  IF i > Len(s) THEN 0
  ELSE IF s[i] = LF THEN i
  ELSE FindNewline(s, i + 1)

\* the lines the pattern of re.sub sees with re.MULTILINE: "^" matches after a
\* "\n" only, and "." matches every character but "\n"
RECURSIVE PatternLines(_)
PatternLines(s) ==
  IF s = << >> THEN << >>
  ELSE LET n == FindNewline(s, 1)
       IN  IF n = 0 THEN << s >>
           ELSE << SubSeq(s, 1, n) >> \o PatternLines(DropFirst(s, n))

\* position of the first "\n" or "\r" of s at or after i, 0 when there is none
RECURSIVE FindLineEnd(_, _)
FindLineEnd(s, i) ==
  IF i > Len(s) THEN 0
  ELSE IF s[i] \in {LF, CR} THEN i
  ELSE FindLineEnd(s, i + 1)

\* the lines a text file yields when iterated (universal newlines): a line ends
\* at "\n", at "\r\n" or at a lone "\r", each read as "\n"; the last line has
\* none when the file does not end in one
RECURSIVE SplitLines(_)
SplitLines(s) ==
  IF s = << >> THEN << >>
  ELSE LET n == FindLineEnd(s, 1)
           m == IF n > 0 /\ n < Len(s) /\ SubSeq(s, n, n + 1) = << CR, LF >> THEN n + 1 ELSE n
       IN  IF n = 0 THEN << s >>
           ELSE << Append(SubSeq(s, 1, n - 1), LF) >> \o SplitLines(DropFirst(s, m))

RECURSIVE Join(_)
Join(lines) == IF lines = << >> THEN << >> ELSE Head(lines) \o Join(Tail(lines))

-----------------------------------------------------------------------------
(* Python dict: the sequence of its items [k, v], in insertion order *)

Keys(d) == { d[i].k : i \in 1..Len(d) }

Get(d, key) == (CHOOSE i \in 1..Len(d) : d[i].k = key)

Lookup(d, key) == d[Get(d, key)].v

\* d[key] = value: a present key keeps its place, a new key goes last
SetItem(d, key, value) ==
  IF key \in Keys(d)
  THEN [d EXCEPT ![Get(d, key)] = [k |-> key, v |-> value]]
  ELSE Append(d, [k |-> key, v |-> value])

-----------------------------------------------------------------------------
(* Index values: a KeyboardLayout, or None for a variant to be removed *)

None == [isNone |-> TRUE, locale |-> << >>, variant |-> << >>, description |-> << >>, xkb_symbols |-> << >>]

KeyboardLayout(l, v, d, b) ==
  [isNone |-> FALSE, locale |-> l, variant |-> v, description |-> d, xkb_symbols |-> b]

-----------------------------------------------------------------------------
(* Helpers: XKB/symbols *)

\* the start of a marker line of the current format (lines 218, 219, 227)
MARK_PREFIX == Str("// KALAMINE::")

\* the end of a begin marker line (lines 218, 224)
BEGIN == Str("::BEGIN\n")

\* the end of an end marker line (lines 219, 252)
END == Str("::END\n")

\* the name of the legacy block (line 230)
LAFAYETTE == Str("lafayette")

LEGACY_MARK == [begin |-> Str("// LAFAYETTE::BEGIN\n"), end |-> Str("// LAFAYETTE::END\n")]

get_symbol_mark(name) ==
  [begin |-> MARK_PREFIX \o upper(name) \o BEGIN,
   end   |-> MARK_PREFIX \o upper(name) \o END]

\* s[a:-b] for a >= 0 and b > 0
Slice(s, a, b) == SubSeq(s, a + 1, Len(s) - b)

\* Optional[str]: None, or the name a begin marker line stands for
is_new_symbol_mark(line) ==
  IF ~EndsWith(line, BEGIN) THEN [isNone |-> TRUE, name |-> << >>]
  ELSE IF StartsWith(line, MARK_PREFIX)
       THEN [isNone |-> FALSE, name |-> lower(Slice(line, 13, 8))]
       ELSE [isNone |-> FALSE, name |-> LAFAYETTE]

\* the truth value of an Optional[str]: None and "" are false
Truthy(opt) == ~opt.isNone /\ opt.name # << >>

\* one turn of the loop over the lines of the file (lines 243-259)
ScanLine(st, line, named_layouts) ==
  LET name == is_new_symbol_mark(line)
  IN  IF Truthy(name)
      THEN IF name.name \in Keys(named_layouts)
           THEN [text          |-> rstrip(st.text),
                 modified_text |-> TRUE,
                 between_marks |-> TRUE,
                 closing_mark  |-> DropLast(line, 6) \o Str("END\n")]
           ELSE [st EXCEPT !.text = st.text \o line]
      ELSE IF EndsWith(line, END)
           THEN IF st.between_marks /\ StartsWith(line, st.closing_mark)
                THEN [st EXCEPT !.between_marks = FALSE, !.closing_mark = << >>]
                ELSE [st EXCEPT !.text = st.text \o line]
           ELSE IF ~st.between_marks
                THEN [st EXCEPT !.text = st.text \o line]
                ELSE st

RECURSIVE ScanLines(_, _, _)
ScanLines(st, lines, named_layouts) ==
  IF lines = << >> THEN st
  ELSE ScanLines(ScanLine(st, Head(lines), named_layouts), Tail(lines), named_layouts)

\* re.sub(r"^//#.*\n", "", body, flags=re.MULTILINE): drop the lines that start
\* with "//#" and end in a newline
RECURSIVE DropIgnored(_)
DropIgnored(lines) ==
  IF lines = << >> THEN << >>
  ELSE IF StartsWith(Head(lines), Str("//#")) /\ EndsWith(Head(lines), << LF >>)
       THEN DropIgnored(Tail(lines))
       ELSE << Head(lines) >> \o DropIgnored(Tail(lines))

\* what the loop of lines 269-283 writes for one item of named_layouts
NewBlock(name, layout) ==
  IF layout.isNone THEN << >>
  ELSE LET mark == get_symbol_mark(name)
       IN  << LF >> \o mark.begin
                \o rstrip(Join(DropIgnored(PatternLines(layout.xkb_symbols)))) \o << LF >>
                \o mark.end

RECURSIVE NewBlocks(_)
NewBlocks(named_layouts) ==
  IF named_layouts = << >> THEN << >>
  ELSE NewBlock(Head(named_layouts).k, Head(named_layouts).v)
         \o NewBlocks(Tail(named_layouts))

\* the first pass without the test of modified_text of line 262: the file is
\* rewritten from text in every call
ClearedText_AlwaysRewritten(content, named_layouts) ==
  rstrip(ScanLines([text |-> << >>, modified_text |-> FALSE,
                    between_marks |-> FALSE, closing_mark |-> << >>],
                   SplitLines(content), named_layouts).text) \o << LF >>

\* the file as the first pass leaves it (lines 236-265): rewritten when a block
\* was dropped, else as it was, the position at its end
ClearedText(content, named_layouts) ==
  LET st == ScanLines([text |-> << >>, modified_text |-> FALSE,
                       between_marks |-> FALSE, closing_mark |-> << >>],
                      SplitLines(content), named_layouts)
  IN  IF st.modified_text THEN rstrip(st.text) \o << LF >> ELSE content

\* the content of the file at path after update_symbols_locale(path, named_layouts)
update_symbols_locale(content, named_layouts) ==
  ClearedText(content, named_layouts) \o NewBlocks(named_layouts)

-----------------------------------------------------------------------------
(* Helpers: XKB/rules.  A tree is the sequence of the layout nodes of its    *)
(* layoutList, in document order; a layout node has a name and a sequence of *)
(* variantList children, each the sequence of its variant nodes.             *)

Variant(name, description) == [name |-> name, description |-> description]

Layout(locale, variantLists) == [name |-> locale, variantLists |-> variantLists]

\* tree.xpath(query): the layout nodes named locale, in document order
LayoutsNamed(tree, locale) == { i \in 1..Len(tree) : tree[i].name = locale }

Min(S) == CHOOSE i \in S : \A j \in S : i <= j

\* get_rules_locale that puts the new layout node first in the layoutList
get_rules_locale_Prepend(tree, locale) ==
  IF Cardinality(LayoutsNamed(tree, locale)) # 1
  THEN << Layout(locale, << << >> >>) >> \o tree
  ELSE tree

\* the tree after get_rules_locale: a layout node with an empty variantList is
\* appended unless exactly one node has the name
get_rules_locale(tree, locale) ==
  IF Cardinality(LayoutsNamed(tree, locale)) # 1
  THEN Append(tree, Layout(locale, << << >> >>))
  ELSE tree

\* the position of the node get_rules_locale returns: query result [0]
LocaleNode(tree, locale) == Min(LayoutsNamed(tree, locale))

\* remove_rules_variant that removes the first node of the name only
RECURSIVE remove_rules_variant_First(_, _)
remove_rules_variant_First(variant_list, name) ==
  IF variant_list = << >> THEN << >>
  ELSE IF Head(variant_list).name = name
       THEN Tail(variant_list)
       ELSE << Head(variant_list) >> \o remove_rules_variant_First(Tail(variant_list), name)

RECURSIVE remove_rules_variant(_, _)
remove_rules_variant(variant_list, name) ==
  IF variant_list = << >> THEN << >>
  ELSE IF Head(variant_list).name = name
       THEN remove_rules_variant(Tail(variant_list), name)
       ELSE << Head(variant_list) >> \o remove_rules_variant(Tail(variant_list), name)

add_rules_variant(variant_list, name, description) ==
  Append(variant_list, Variant(name, description))

\* lines 370-374, for the items of one locale of the index
RECURSIVE ApplyVariants(_, _)
ApplyVariants(variant_list, named_layouts) ==
  IF named_layouts = << >> THEN variant_list
  ELSE LET name    == Head(named_layouts).k
           layout  == Head(named_layouts).v
           removed == remove_rules_variant(variant_list, name)
       IN  ApplyVariants(IF layout.isNone THEN removed
                         ELSE add_rules_variant(removed, name, layout.description),
                         Tail(named_layouts))

\* lines 366-374: r.tree is the tree in memory, r.exited says that line 369
\* ended the process
RECURSIVE ApplyIndex(_, _)
ApplyIndex(r, kb_index) ==
  IF kb_index = << >> \/ r.exited THEN r
  ELSE LET locale == Head(kb_index).k
           tree   == get_rules_locale(r.tree, locale)
           node   == LocaleNode(tree, locale)
           vlist  == tree[node].variantLists
       IN  IF Len(vlist) # 1
           THEN [tree |-> tree, exited |-> TRUE]
           ELSE ApplyIndex(
                  [tree   |-> [tree EXCEPT ![node].variantLists =
                                 << ApplyVariants(vlist[1], Head(kb_index).v) >>],
                   exited |-> FALSE],
                  Tail(kb_index))

-----------------------------------------------------------------------------
(* Files.  A symbols file is [exists, content]; a rules shard is [exists,    *)
(* pretty, parses, tree]: pretty says that the file is in the form           *)
(* tree.write gives it (pretty-printed, with an XML declaration), parses     *)
(* that it holds a whole document, which tree is the layoutList of.          *)

NoSymbols == [exists |-> FALSE, content |-> << >>]

SymbolsFile(content) == [exists |-> TRUE, content |-> content]

NoShard == [exists |-> FALSE, pretty |-> FALSE, parses |-> FALSE, tree |-> << >>]

Shard(tree) == [exists |-> TRUE, pretty |-> FALSE, parses |-> TRUE, tree |-> tree]

\* the shard as tree.write leaves it (lines 376-378)
WrittenShard(tree) == [exists |-> TRUE, pretty |-> TRUE, parses |-> TRUE, tree |-> tree]

\* the shard when tree.write has opened the file, which empties it, and the
\* first write to it has failed: the file holds no document
Truncated == [exists |-> TRUE, pretty |-> FALSE, parses |-> FALSE, tree |-> << >>]

BASE_XML == Str("base.xml")

EVDEV_XML == Str("evdev.xml")

\* the shards in the order of line 358
Filenames == << BASE_XML, EVDEV_XML >>

\* the paths of the files, from the root directory of the manager (XKB_ROOT as
\* root, XKB_HOME in user space)
RulesPath(filename) == Str("rules/") \o filename

SymbolsPath(locale) == Str("symbols/") \o locale

\* the path of the source file as the frames of a traceback name it: the path
\* the module was loaded from
SourceFile == Str("src/kalamine/xkb_manager.py")

\* the log of a call of update(): the file operations in order, [op, file] with
\* op "write" (tree.write of a shard), "truncate" (a tree.write that emptied the
\* shard and failed), "create" (a new symbols file), "update_symbols_locale"
\* (the call for a locale) or "raise" (the failure that ended the call, at that
\* file)

\* how a call of update() ended: it returned, or it raised exc
NotCalled == [status |-> "none", exc |-> "", message |-> << >>]

Running == [status |-> "running", exc |-> "", message |-> << >>]

Returned == [status |-> "returned", exc |-> "", message |-> << >>]

Raised(exc, message) == [status |-> "raised", exc |-> exc, message |-> message]

\* an exception: its class, str() of it, the frames of its traceback below the
\* caller of exit_FileNotWritable, and the lines format_exc ends with
Exception(class, message, frames, last) ==
  [class |-> class, message |-> message, frames |-> frames, last |-> last]

\* the classes that are instances of OSError (IOError)
OSErrors == {"PermissionError", "OSError"}

\* raised by open(path) or by a read of the file: the text names the path
FileError(class, path) ==
  LET message == IF class = "PermissionError"
                 THEN Str("[Errno 13] Permission denied: '") \o path \o Str("'")
                 ELSE Str("[Errno 5] Input/output error: '") \o path \o Str("'")
  IN  Exception(class, message, << >>, Str(class) \o Str(": ") \o message \o << LF >>)

\* raised by a write to a file that is open: the text names no file
WriteError == Exception("OSError", Str("[Errno 27] File too large"), << >>,
                        Str("OSError: [Errno 27] File too large\n"))

\* raised by the iteration of line 242 on a file whose bytes are not UTF-8
DecodeError ==
  Exception("UnicodeDecodeError",
            Str("'utf-8' codec can't decode byte 0xff in position 0: invalid start byte"),
            Str("  File \"") \o SourceFile \o Str("\", line 300, in update_symbols\n")
              \o Str("    update_symbols_locale(path, named_layouts)\n")
              \o Str("  File \"") \o SourceFile \o Str("\", line 242, in update_symbols_locale\n")
              \o Str("    for line in symbols:\n")
              \o Str("  File \"<frozen codecs>\", line 322, in decode\n"),
            Str("UnicodeDecodeError: 'utf-8' codec can't decode byte 0xff in position 0: ")
              \o Str("invalid start byte\n"))

\* the line of carets a frame has under the call that raised, when the call is
\* a part of its line (Python 3.11)
RECURSIVE Carets(_)
Carets(n) == IF n = 0 THEN << >> ELSE Str("^") \o Carets(n - 1)

\* raised by etree.parse (line 364) on a shard file that holds no document
XMLSyntaxError(filename) ==
  Exception("XMLSyntaxError",
            Str("Document is empty, line 1, column 1 (") \o filename \o Str(", line 1)"),
            Str("  File \"") \o SourceFile \o Str("\", line 364, in update_rules\n")
              \o Str("    tree = etree.parse(filepath, etree.XMLParser(remove_blank_text=True))\n")
              \o Str("           ") \o Carets(62) \o << LF >>,
            Str("  File \"") \o RulesPath(filename) \o Str("\", line 1\n")
              \o Str("lxml.etree.XMLSyntaxError: Document is empty, line 1, column 1\n"))

\* raised by tree.write (line 376) when the serializer reports a write to the
\* open file that failed: the text names no file
SerialisationError ==
  Exception("SerialisationError", Str("IO_WRITE"),
            Str("  File \"") \o SourceFile \o Str("\", line 376, in update_rules\n")
              \o Str("    tree.write(\n"),
            Str("lxml.etree.SerialisationError: IO_WRITE\n"))

str(exception) == exception.message

\* traceback.format_exc(): the frames, then the exception
format_exc(exception) ==
  Str("Traceback (most recent call last):\n") \o exception.frames \o exception.last

exit_FileNotWritable(exception, path) ==
  IF exception.class = "PermissionError" THEN Raised("PermissionError", str(exception))
  ELSE IF exception.class \in OSErrors
       THEN Raised("SystemExit", Str("Error: could not write to file ") \o path \o Str("."))
       ELSE Raised("SystemExit", Str("Error: ") \o str(exception) \o Str(".\n") \o format_exc(exception))

\* a failure of the file system during a call of update(): at the file, the
\* step "read" (opening the file that exists, or reading it), "open" (opening
\* the file for a write that creates or empties it) or "write" (a write to the
\* file, after the call has written the first written characters to it) raises
\* exc
NoFault == [file |-> << >>, at |-> "", written |-> 0, exc |-> Exception("", << >>, << >>, << >>)]

Fault(file, at, written, exc) == [file |-> file, at |-> at, written |-> written, exc |-> exc]

\* lines 359-382 with tree.write moved before the test of line 368: the tree in
\* memory is written when the process exits
UpdateShard_WriteThenExit(u, filename, kb_index, fault) ==
  IF u.outcome.status # "running" \/ ~u.rules[filename].exists THEN u
  ELSE LET r == ApplyIndex([tree |-> u.rules[filename].tree, exited |-> FALSE], kb_index)
       IN  IF r.exited
           THEN [u EXCEPT !.rules[filename] = WrittenShard(r.tree),
                          !.outcome =
                   Raised("SystemExit", Str("Error: unexpected xml format in ")
                                          \o RulesPath(filename) \o Str(".")),
                          !.log = Append(@, [op |-> "raise", file |-> RulesPath(filename)])]
           ELSE [u EXCEPT !.rules[filename] = WrittenShard(r.tree),
                          !.log = Append(@, [op |-> "write", file |-> RulesPath(filename)])]

\* lines 359-382 for one shard; u is the run so far: the files, the log of
\* file operations and how the run ended, if it did
UpdateShard(u, filename, kb_index, fault) ==
  IF u.outcome.status # "running" \/ ~u.rules[filename].exists THEN u
  ELSE LET path   == RulesPath(filename)
           raised == [op |-> "raise", file |-> path]
       IN  IF fault.file = path /\ fault.at = "read"
           THEN [u EXCEPT !.outcome = exit_FileNotWritable(fault.exc, path),
                          !.log = Append(@, raised)]
           ELSE IF ~u.rules[filename].parses
           THEN [u EXCEPT !.outcome = exit_FileNotWritable(XMLSyntaxError(filename), path),
                          !.log = Append(@, raised)]
           ELSE LET r == ApplyIndex([tree |-> u.rules[filename].tree, exited |-> FALSE],
                                    kb_index)
                IN  IF r.exited
                    THEN [u EXCEPT !.outcome =
                            Raised("SystemExit", Str("Error: unexpected xml format in ")
                                                   \o path \o Str(".")),
                                   !.log = Append(@, raised)]
                    ELSE IF fault.file = path /\ fault.at = "open"
                    THEN [u EXCEPT !.outcome = exit_FileNotWritable(fault.exc, path),
                                   !.log = Append(@, raised)]
                    ELSE IF fault.file = path /\ fault.at = "write"
                    THEN [u EXCEPT !.rules[filename] = Truncated,
                                   !.outcome = exit_FileNotWritable(fault.exc, path),
                                   !.log = Append(Append(@, [op |-> "truncate", file |-> path]),
                                                  raised)]
                    ELSE [u EXCEPT !.rules[filename] = WrittenShard(r.tree),
                                   !.log = Append(@, [op |-> "write", file |-> path])]

update_rules(u, kb_index, fault) ==
  UpdateShard(UpdateShard(u, Filenames[1], kb_index, fault), Filenames[2], kb_index, fault)

\* what line 295 writes to a new symbols file
Header == Str("// Generated by Kalamine")

\* the file at path when the writes of update_symbols_locale have failed after
\* their first written characters: the cleared text goes to the start of the
\* file, over what it held (lines 263-264), the file is cut after it (265),
\* and the new blocks follow (275-283)
PartOfUpdate(content, named_layouts, written) ==
  LET st      == ScanLines([text |-> << >>, modified_text |-> FALSE,
                            between_marks |-> FALSE, closing_mark |-> << >>],
                           SplitLines(content), named_layouts)
      cleared == rstrip(st.text) \o << LF >>
      blocks  == NewBlocks(named_layouts)
  IN  IF ~st.modified_text THEN content \o SubSeq(blocks, 1, written)
      ELSE IF written < Len(cleared)
           THEN SubSeq(cleared, 1, written) \o DropFirst(content, written)
           ELSE cleared \o SubSeq(blocks, 1, written - Len(cleared))

\* the number of characters update_symbols_locale writes
WrittenBy(content, named_layouts) ==
  LET st == ScanLines([text |-> << >>, modified_text |-> FALSE,
                       between_marks |-> FALSE, closing_mark |-> << >>],
                      SplitLines(content), named_layouts)
  IN  (IF st.modified_text THEN Len(rstrip(st.text)) + 1 ELSE 0) + Len(NewBlocks(named_layouts))

\* lines 292-303 for one locale of the index
UpdateLocale(u, locale, named_layouts, fault) ==
  IF u.outcome.status # "running" THEN u
  ELSE LET path   == SymbolsPath(locale)
           raised == [op |-> "raise", file |-> path]
           exists == u.symbols[locale].exists
           hit(at) == fault.file = path /\ fault.at = at
       IN  IF ~exists /\ hit("open")
           THEN [u EXCEPT !.outcome = Raised(fault.exc.class, str(fault.exc)),
                          !.log = Append(@, raised)]
           ELSE IF ~exists /\ hit("write") /\ fault.written < Len(Header)
           THEN [u EXCEPT !.symbols[locale] = SymbolsFile(SubSeq(Header, 1, fault.written)),
                          !.outcome = Raised(fault.exc.class, str(fault.exc)),
                          !.log = Append(Append(@, [op |-> "create", file |-> path]), raised)]
           ELSE LET created == IF exists THEN u
                               ELSE [u EXCEPT !.symbols[locale] = SymbolsFile(Header),
                                              !.log = Append(@, [op |-> "create", file |-> path])]
                    called  == [created EXCEPT !.log =
                                  Append(@, [op |-> "update_symbols_locale", file |-> path])]
                    content == created.symbols[locale].content
                    left    == IF exists THEN fault.written ELSE fault.written - Len(Header)
                IN  IF hit("read") /\ (exists \/ fault.exc.class \in OSErrors)
                    THEN [called EXCEPT !.outcome = exit_FileNotWritable(fault.exc, path),
                                        !.log = Append(@, raised)]
                    ELSE IF hit("write") /\ left < WrittenBy(content, named_layouts)
                    THEN [called EXCEPT !.symbols[locale].content =
                                          PartOfUpdate(content, named_layouts, left),
                                        !.outcome = exit_FileNotWritable(fault.exc, path),
                                        !.log = Append(@, raised)]
                    ELSE [called EXCEPT !.symbols[locale].content =
                            update_symbols_locale(content, named_layouts)]

RECURSIVE UpdateLocales(_, _, _)
UpdateLocales(u, kb_index, fault) ==
  IF kb_index = << >> THEN u
  ELSE UpdateLocales(UpdateLocale(u, Head(kb_index).k, Head(kb_index).v, fault),
                     Tail(kb_index), fault)

update_symbols(u, kb_index, fault) == UpdateLocales(u, kb_index, fault)

-----------------------------------------------------------------------------
(* Listing: list_rules reads the shards, list_symbols keeps what the symbols *)
(* files hold a begin marker for                                             *)

\* position of the first "/" of s at or after i, 0 when there is none
RECURSIVE FindSlash(_, _)
FindSlash(s, i) ==
  IF i > Len(s) THEN 0
  ELSE IF s[i] = ord["/"] THEN i
  ELSE FindSlash(s, i + 1)

\* mask.split("/")
RECURSIVE split(_)
split(s) ==
  LET n == FindSlash(s, 1)
  IN  IF n = 0 THEN << s >>
      ELSE << SubSeq(s, 1, n - 1) >> \o split(DropFirst(s, n))

\* the mask of every name (lines 388-390, 397, 411)
ANY == Str("*")

\* lines 388-397 with a mask "L/V" read as "L": the variant is not looked at
ParseMask_LocaleOnly(mask) ==
  IF mask \in {<< >>, ANY} THEN [locale_mask |-> ANY, variant_mask |-> ANY]
  ELSE LET m == split(mask)
       IN  IF Len(m) = 2
           THEN [locale_mask |-> m[1], variant_mask |-> ANY]
           ELSE [locale_mask |-> mask, variant_mask |-> ANY]

\* lines 388-397: the locale mask and the variant mask of a mask
ParseMask(mask) ==
  IF mask \in {<< >>, ANY} THEN [locale_mask |-> ANY, variant_mask |-> ANY]
  ELSE LET m == split(mask)
       IN  IF Len(m) = 2
           THEN [locale_mask |-> m[1], variant_mask |-> m[2]]
           ELSE [locale_mask |-> mask, variant_mask |-> ANY]

\* tree.xpath("//variant"): the variant nodes in document order, each with the
\* name of its layout node
RECURSIVE VariantsOfLists(_, _)
VariantsOfLists(locale, variantLists) ==
  IF variantLists = << >> THEN << >>
  ELSE [i \in 1..Len(Head(variantLists)) |->
          [locale |-> locale,
           name   |-> Head(variantLists)[i].name,
           desc   |-> Head(variantLists)[i].description]]
         \o VariantsOfLists(locale, Tail(variantLists))

RECURSIVE VariantsOfTree(_)
VariantsOfTree(tree) ==
  IF tree = << >> THEN << >>
  ELSE VariantsOfLists(Head(tree).name, Head(tree).variantLists) \o VariantsOfTree(Tail(tree))

\* lines 406-414: the variants that match enter kb_index, a later description
\* taking the place of an earlier one
RECURSIVE ListVariants(_, _, _)
ListVariants(kb_index, variants, masks) ==
  IF variants = << >> THEN kb_index
  ELSE LET variant == Head(variants)
           named   == IF variant.locale \in Keys(kb_index)
                      THEN Lookup(kb_index, variant.locale) ELSE << >>
       IN  ListVariants(
             IF /\ masks.locale_mask \in {ANY, variant.locale}
                /\ masks.variant_mask \in {ANY, variant.name}
             THEN SetItem(kb_index, variant.locale, SetItem(named, variant.name, variant.desc))
             ELSE kb_index,
             Tail(variants), masks)

\* lines 400-414 for one shard
ListShard(kb_index, shard, masks) ==
  IF ~shard.exists THEN kb_index
  ELSE ListVariants(kb_index, VariantsOfTree(shard.tree), masks)

list_rules(tree_files, mask) ==
  ListShard(ListShard(<< >>, tree_files[Filenames[1]], ParseMask(mask)),
            tree_files[Filenames[2]], ParseMask(mask))

\* a < b for two str: by the code points of their characters
RECURSIVE StrLess(_, _)
StrLess(a, b) ==
  IF b = << >> THEN FALSE
  ELSE IF a = << >> THEN TRUE
  ELSE IF Head(a) = Head(b) THEN StrLess(Tail(a), Tail(b))
  ELSE Head(a) < Head(b)

\* sorted(d.items()): the items by their keys
RECURSIVE sorted(_)
sorted(items) ==
  IF items = << >> THEN << >>
  ELSE LET least == CHOOSE i \in 1..Len(items) :
                      \A j \in 1..Len(items) : j # i => StrLess(items[i].k, items[j].k)
       IN  << items[least] >>
             \o sorted(SubSeq(items, 1, least - 1) \o SubSeq(items, least + 1, Len(items)))

\* lines 316-323: the variants of the locale whose name a line of the file is
\* recognized as the begin marker of
RECURSIVE FilterLines(_, _, _, _)
FilterLines(filtered_index, locale, variants, lines) ==
  IF lines = << >> THEN filtered_index
  ELSE LET name  == is_new_symbol_mark(Head(lines))
           named == IF locale \in Keys(filtered_index)
                    THEN Lookup(filtered_index, locale) ELSE << >>
       IN  FilterLines(
             IF ~name.isNone /\ name.name \in Keys(variants)
             THEN SetItem(filtered_index, locale,
                          SetItem(named, name.name, Lookup(variants, name.name)))
             ELSE filtered_index,
             locale, variants, Tail(lines))

\* the file xkb_root/symbols/<locale> exists
SymbolsExists(symbols_files, locale) ==
  locale \in DOMAIN symbols_files /\ symbols_files[locale].exists

\* list_symbols that enters every locale that has a symbols file, matched or not
RECURSIVE FilterLocales_KeepEmpty(_, _, _)
FilterLocales_KeepEmpty(filtered_index, symbols_files, items) ==
  IF items = << >> THEN filtered_index
  ELSE LET locale == Head(items).k
       IN  FilterLocales_KeepEmpty(
             IF ~SymbolsExists(symbols_files, locale) THEN filtered_index
             ELSE FilterLines(SetItem(filtered_index, locale, << >>), locale, Head(items).v,
                              SplitLines(symbols_files[locale].content)),
             symbols_files, Tail(items))

\* lines 310-323 over the sorted items of kb_index
RECURSIVE FilterLocales(_, _, _)
FilterLocales(filtered_index, symbols_files, items) ==
  IF items = << >> THEN filtered_index
  ELSE LET locale == Head(items).k
       IN  FilterLocales(
             IF ~SymbolsExists(symbols_files, locale) THEN filtered_index
             ELSE FilterLines(filtered_index, locale, Head(items).v,
                              SplitLines(symbols_files[locale].content)),
             symbols_files, Tail(items))

list_symbols(symbols_files, kb_index) == FilterLocales(<< >>, symbols_files, sorted(kb_index))

-----------------------------------------------------------------------------
(* XKBManager *)

\* self._index[locale][variant] = value, the locale entered first when new
IndexSet(kb_index, locale, variant, value) ==
  LET named == IF locale \in Keys(kb_index) THEN Lookup(kb_index, locale) ELSE << >>
  IN  SetItem(kb_index, locale, SetItem(named, variant, value))

add(layout) ==
  /\ index' = IndexSet(index, layout.locale, layout.variant, layout)
  /\ UNCHANGED <<as_root, symbols, rules, outcome, log, committed, commits, listed>>

remove(locale, variant) ==
  /\ index' = IndexSet(index, locale, variant, None)
  /\ UNCHANGED <<as_root, symbols, rules, outcome, log, committed, commits, listed>>

\* update() with lines 71 and 72 in the other order
Run_SymbolsFirst(fault) ==
  update_rules(
    update_symbols([rules |-> rules, symbols |-> symbols, log |-> << >>, outcome |-> Running],
                   index, fault),
    index, fault)

\* the run of update() on the files as they are, under one file-system fault
Run(fault) ==
  update_symbols(
    update_rules([rules |-> rules, symbols |-> symbols, log |-> << >>, outcome |-> Running],
                 index, fault),
    index, fault)

update(fault) ==
  LET u == Run(fault)
  IN  /\ rules' = u.rules
      /\ symbols' = u.symbols
      /\ log' = u.log
      /\ outcome' = IF u.outcome.status = "running" THEN Returned ELSE u.outcome
      /\ index' = IF u.outcome.status = "running" THEN << >> ELSE index
      /\ committed' = [index |-> index, rules |-> rules, symbols |-> symbols]
      /\ commits' = commits + 1
      /\ UNCHANGED <<as_root, listed>>

\* ensure_xkb_config_is_ready(): a manager as root returns at once (lines
\* 114-115); for a manager in user space rules/evdev.xml is created with an
\* empty layoutList when it is absent (lines 117-151). The directories and the
\* file rules/evdev it creates are no state of the model. outcome and log
\* speak of the files as update() left them, so they are reset when a file is
\* created
ensure_xkb_config_is_ready ==
  IF as_root THEN UNCHANGED vars
  ELSE /\ rules' = [rules EXCEPT ![EVDEV_XML] = IF @.exists THEN @ ELSE Shard(<< >>)]
       /\ outcome' = IF rules[EVDEV_XML].exists THEN outcome ELSE NotCalled
       /\ log' = IF rules[EVDEV_XML].exists THEN log ELSE << >>
       /\ UNCHANGED <<as_root, index, symbols, committed, commits, listed>>

\* every shard file that exists holds a document: list_rules raises what
\* etree.parse raises (line 405) when one does not
Parses(tree_files) == \A f \in {BASE_XML, EVDEV_XML} : tree_files[f].exists => tree_files[f].parses

\* what list() returns on the files as they are
list(mask) == list_symbols(symbols, list_rules(rules, mask))

list_all(mask) == list_rules(rules, mask)

\* the value the last call of list() or list_all() returned
NotListed == [op |-> "", mask |-> << >>, result |-> << >>]

Listed(op, mask, result) == [op |-> op, mask |-> mask, result |-> result]

-----------------------------------------------------------------------------
(* The inputs of the model *)

MaxSegments == 2

MaxIndex == 2

MaxCommits == 2

\* the locales of the model
FR == Str("fr")

DE == Str("de")

Locales == {FR, DE}

\* a block as an earlier install of variant "a" wrote it
BlockA == Str("// KALAMINE::A::BEGIN\nx\n// KALAMINE::A::END\n")

\* a block as an earlier install of variant "B" wrote it
BlockB == Str("// KALAMINE::B::BEGIN\nx\n// KALAMINE::B::END\n")

\* the block of the first Lafayette installer
LegacyBlock == LEGACY_MARK.begin \o Str("y\n") \o LEGACY_MARK.end

\* a block of "a" whose content looks like markers of other names
NestBlock == Str("// KALAMINE::A::BEGIN\n// KALAMINE::C::BEGIN\nz::END\n// KALAMINE::A::END\n")

Segments == {Str("p\n"), << LF >>, BlockA, BlockB, LegacyBlock, NestBlock}

\* a last line without a newline
Endings == {<< >>, Str("q")}

RECURSIVE Texts(_)
Texts(n) ==
  IF n = 0 THEN {<< >>}
  ELSE LET shorter == Texts(n - 1)
       IN  shorter \cup { t \o seg : t \in shorter, seg \in Segments }

\* files with other line ends than "\n" and with a form feed before a block;
\* a file with a block of "a" between two lines that are no marker lines, and
\* that make up a begin marker of "a" when they are put together; files with
\* an ideographic space (U+3000) and a no-break space (U+00A0) in the lines
\* before a block, and with a block whose name is in capital Greek letters,
\* the last a sigma
OtherTexts ==
  { Str("p\r\n// KALAMINE::A::BEGIN\r\nx\r\n// KALAMINE::A::END\r\nq\r\n"),
    Str("p\rq\r") \o BlockB,
    Str("p\f\n") \o BlockA,
    Str("// KALAMINE::A\n") \o BlockA \o BEGIN,
    Str("p") \o << 12288, LF, 160, LF >> \o BlockA,
    MARK_PREFIX \o << 927, 916, 927, 931 >> \o BEGIN
      \o Str("x\n") \o MARK_PREFIX \o << 927, 916, 927, 931 >> \o END \o Str("q") }

SymbolsFiles ==
  {NoSymbols}
  \cup { SymbolsFile(t \o e) : t \in Texts(MaxSegments), e \in Endings }
  \cup { SymbolsFile(t) : t \in OtherTexts }

LayoutA == KeyboardLayout(FR, Str("a"), Str("A"), Str("//#g\nk\n\n"))

LayoutB == KeyboardLayout(FR, Str("B"), Str("Bee"), Str("k"))

LayoutDe == KeyboardLayout(DE, Str("a"), Str("A"), Str("k\n"))

Layouts == {LayoutA, LayoutB, LayoutDe}

Removals == {<<FR, Str("a")>>, <<FR, Str("B")>>, <<FR, LAFAYETTE>>}

TreeEmpty == << >>

TreeFr == << Layout(Str("us"), << << Variant(Str("a"), Str("old")) >> >>),
             Layout(FR, << << Variant(Str("c"), Str("C")), Variant(Str("a"), Str("old")), Variant(Str("d"), Str("D")) >> >>) >>

TreeDup == << Layout(FR, << << Variant(Str("a"), Str("old")), Variant(Str("c"), Str("C")), Variant(Str("a"), Str("older")) >> >>) >>

TreeNoList == << Layout(DE, << << >> >>), Layout(FR, << >>) >>

TreeTwoLists == << Layout(FR, << << Variant(Str("a"), Str("old")) >>, << >> >>) >>

DefaultRules == [f \in {BASE_XML, EVDEV_XML} |->
                   IF f = EVDEV_XML THEN Shard(TreeEmpty) ELSE NoShard]

RulesOf(base, evdev) == [f \in {BASE_XML, EVDEV_XML} |-> IF f = BASE_XML THEN base ELSE evdev]

RulesConfigs ==
  { DefaultRules,
    RulesOf(Shard(TreeFr), Shard(TreeFr)),
    RulesOf(Shard(TreeFr), Shard(TreeEmpty)),
    RulesOf(Shard(TreeDup), NoShard),
    RulesOf(NoShard, NoShard),
    RulesOf(Shard(TreeFr), Shard(TreeNoList)),
    RulesOf(Shard(TreeTwoLists), Shard(TreeFr)) }

DefaultSymbols == SymbolsFile(Str("p\n\n") \o BlockA)

\* the numbers of characters after which a write may fail
WrittenCounts == {2, 20}

\* the failures of the model: of evdev.xml when it is parsed, when tree.write
\* opens it and when tree.write writes to it (as an OSError or as the error of
\* the serializer); of the symbols file of "fr" when
\* it is opened or read, when it is created, and when it is written to
Faults ==
  {NoFault}
  \cup { Fault(RulesPath(EVDEV_XML), "read", 0,
               FileError("OSError", RulesPath(EVDEV_XML))),
         Fault(RulesPath(EVDEV_XML), "open", 0,
               FileError("PermissionError", RulesPath(EVDEV_XML))),
         Fault(RulesPath(EVDEV_XML), "write", 0, WriteError),
         Fault(RulesPath(EVDEV_XML), "write", 0, SerialisationError) }
  \cup { Fault(SymbolsPath(FR), "read", 0, FileError("PermissionError", SymbolsPath(FR))),
         Fault(SymbolsPath(FR), "read", 0, DecodeError),
         Fault(SymbolsPath(FR), "open", 0, FileError("PermissionError", SymbolsPath(FR))) }
  \cup { Fault(SymbolsPath(FR), "write", n, WriteError) : n \in WrittenCounts }

\* the number of (locale, variant) items of an index
RECURSIVE Size(_)
Size(kb_index) ==
  IF kb_index = << >> THEN 0 ELSE Len(Head(kb_index).v) + Size(Tail(kb_index))

HasItem(kb_index, locale, variant) ==
  locale \in Keys(kb_index) /\ variant \in Keys(Lookup(kb_index, locale))

\* XKBManager(root): the manager is one in user space, and also one as root on
\* the files where the two differ, those without rules/evdev.xml
Managers(tree_files) == IF tree_files[EVDEV_XML].exists THEN {FALSE} ELSE BOOLEAN

-----------------------------------------------------------------------------
(* One registration session: the index is populated, then committed once *)

Init ==
  /\ index = << >>
  /\ outcome = NotCalled
  /\ listed = NotListed
  /\ log = << >>
  /\ commits = 0
  /\ \/ /\ rules = DefaultRules
        /\ \E file \in SymbolsFiles : symbols = [l \in Locales |-> IF l = FR THEN file ELSE NoSymbols]
     \/ /\ rules \in RulesConfigs
        /\ symbols = [l \in Locales |-> IF l = FR THEN DefaultSymbols ELSE NoSymbols]
  /\ committed = [index |-> << >>, rules |-> rules, symbols |-> symbols]
  /\ as_root \in Managers(rules)

Add(layout) ==
  /\ commits = 0
  /\ Size(index) < MaxIndex \/ HasItem(index, layout.locale, layout.variant)
  /\ add(layout)

Remove(locale, variant) ==
  /\ commits = 0
  /\ Size(index) < MaxIndex \/ HasItem(index, locale, variant)
  /\ remove(locale, variant)

Update ==
  /\ commits = 0
  /\ update(NoFault)

EnsureReady ==
  /\ commits = 0
  /\ ensure_xkb_config_is_ready

Next ==
  \/ EnsureReady
  \/ \E layout \in Layouts : Add(layout)
  \/ \E r \in Removals : Remove(r[1], r[2])
  \/ Update

Spec == Init /\ [][Next]_vars

-----------------------------------------------------------------------------
(* Registration sessions one after the other, under file-system faults: the  *)
(* process lives until an update() ends it with SystemExit                   *)

Alive == outcome.exc # "SystemExit" /\ commits < MaxCommits

InitSessions ==
  /\ index = << >>
  /\ outcome = NotCalled
  /\ listed = NotListed
  /\ log = << >>
  /\ commits = 0
  /\ rules \in { DefaultRules,
                 RulesOf(NoShard, NoShard),
                 RulesOf(Shard(TreeFr), Shard(TreeEmpty)),
                 RulesOf(Shard(TreeFr), Shard(TreeNoList)) }
  /\ \E file \in {NoSymbols, DefaultSymbols} : symbols = [l \in Locales |-> IF l = FR THEN file ELSE NoSymbols]
  /\ committed = [index |-> << >>, rules |-> rules, symbols |-> symbols]
  /\ as_root \in Managers(rules)

SessionAdd(layout) == Alive /\ add(layout)

SessionRemove(locale, variant) == Alive /\ remove(locale, variant)

SessionUpdate(fault) == Alive /\ update(fault)

SessionEnsureReady == Alive /\ ensure_xkb_config_is_ready

NextSessions ==
  \/ SessionEnsureReady
  \/ \E layout \in {LayoutA, LayoutDe} : SessionAdd(layout)
  \/ \E r \in {<<FR, Str("a")>>} : SessionRemove(r[1], r[2])
  \/ \E fault \in Faults : SessionUpdate(fault)

Sessions == InitSessions /\ [][NextSessions]_vars

-----------------------------------------------------------------------------
(* Sessions for one variant each that end with a listing: list() and         *)
(* list_all() change nothing, so what may follow them is what may follow     *)
(* without them                                                              *)

TreeList == << Layout(FR, << << Variant(Str("B"), Str("Bee")), Variant(LAFAYETTE, Str("L")), Variant(Str("a"), Str("A")) >> >>),
               Layout(DE, << << Variant(Str("a"), Str("A")) >> >>) >>

MaskSet == {<< >>, ANY, FR, Str("us"), Str("fr/a"), Str("fr/*"), Str("*/a"), Str("fr/a/b")}

InitListing ==
  /\ index = << >>
  /\ outcome = NotCalled
  /\ listed = NotListed
  /\ log = << >>
  /\ commits = 0
  /\ rules \in { DefaultRules,
                 RulesOf(Shard(TreeFr), Shard(TreeList)),
                 RulesOf(Shard(TreeDup), NoShard),
                 RulesOf(NoShard, Shard(TreeTwoLists)) }
  /\ \E file \in { NoSymbols, DefaultSymbols,
                    SymbolsFile(BlockB \o LegacyBlock \o Str("q")), SymbolsFile(NestBlock) } : symbols = [l \in Locales |-> IF l = FR THEN file ELSE NoSymbols]
  /\ committed = [index |-> << >>, rules |-> rules, symbols |-> symbols]
  /\ as_root \in Managers(rules)

ListingAdd(layout) ==
  /\ Alive /\ listed = NotListed
  /\ index = << >> \/ HasItem(index, layout.locale, layout.variant)
  /\ add(layout)

ListingRemove(locale, variant) ==
  /\ Alive /\ listed = NotListed
  /\ index = << >> \/ HasItem(index, locale, variant)
  /\ remove(locale, variant)

ListingUpdate == Alive /\ listed = NotListed /\ update(NoFault)

List(mask) ==
  /\ outcome.exc # "SystemExit" /\ listed = NotListed /\ Parses(rules)
  /\ listed' = Listed("list", mask, list(mask))
  /\ UNCHANGED <<as_root, index, symbols, rules, outcome, log, committed, commits>>

ListAll(mask) ==
  /\ outcome.exc # "SystemExit" /\ listed = NotListed /\ Parses(rules)
  /\ listed' = Listed("list_all", mask, list_all(mask))
  /\ UNCHANGED <<as_root, index, symbols, rules, outcome, log, committed, commits>>

ListingEnsureReady == Alive /\ listed = NotListed /\ ensure_xkb_config_is_ready

NextListing ==
  \/ ListingEnsureReady
  \/ \E layout \in {LayoutA, LayoutB} : ListingAdd(layout)
  \/ \E r \in {<<FR, Str("a")>>, <<FR, Str("B")>>} : ListingRemove(r[1], r[2])
  \/ ListingUpdate
  \/ \E mask \in MaskSet : List(mask)
  \/ \E mask \in MaskSet : ListAll(mask)

Listing == InitListing /\ [][NextListing]_vars

-----------------------------------------------------------------------------
(* What the claims speak of *)

\* a call of update() has ended, and no other operation has changed a file
\* since
Called == commits > 0 /\ outcome # NotCalled

\* the locales of the index that call consumed, and their items
Committed(locale) == Lookup(committed.index, locale)

CommittedLocales == Keys(committed.index)

\* the content update_symbols_locale was called with: the file as it was, or
\* as update_symbols created it
ContentBefore(locale) ==
  IF committed.symbols[locale].exists THEN committed.symbols[locale].content
  ELSE Header

LinesBefore(locale) == SplitLines(ContentBefore(locale))

LinesAfter(locale) == SplitLines(symbols[locale].content)

\* update_symbols_locale ran to its end on the file of locale in the last call
Rewritten(locale) ==
  /\ Called
  /\ locale \in CommittedLocales
  /\ \E i \in 1..Len(log) : log[i] = [op |-> "update_symbols_locale", file |-> SymbolsPath(locale)]
  /\ \A i \in 1..Len(log) : log[i] # [op |-> "raise", file |-> SymbolsPath(locale)]

\* tree.write ran on the shard in the last call
Written(filename) ==
  Called /\ \E i \in 1..Len(log) : log[i] = [op |-> "write", file |-> RulesPath(filename)]

Definitions(named_layouts) == { k \in Keys(named_layouts) : ~Lookup(named_layouts, k).isNone }

Tombstones(named_layouts) == { k \in Keys(named_layouts) : Lookup(named_layouts, k).isNone }

\* the marker lines of the protocol for a variant name: the current format
\* with the name in any letter case, and the legacy lines for "lafayette"
IsBeginOf(line, name) ==
  \/ /\ StartsWith(line, MARK_PREFIX)
     /\ EndsWith(line, BEGIN)
     /\ lower(Slice(line, 13, 8)) = name
  \/ name = LAFAYETTE /\ line = LEGACY_MARK.begin

IsEndOf(line, name) ==
  \/ /\ StartsWith(line, MARK_PREFIX)
     /\ EndsWith(line, END)
     /\ lower(Slice(line, 13, 6)) = name
  \/ name = LAFAYETTE /\ line = LEGACY_MARK.end

Begins(lines, name) == { i \in 1..Len(lines) : IsBeginOf(lines[i], name) }

Ends(lines, name) == { i \in 1..Len(lines) : IsEndOf(lines[i], name) }

\* the marker lines of name pair up: each begin marker is followed by its own
\* end marker before the next marker line of name; open is the end marker
\* awaited, "" outside a block
RECURSIVE Paired(_, _, _)
Paired(lines, name, open) ==
  IF lines = << >> THEN open = << >>
  ELSE IF IsBeginOf(Head(lines), name)
       THEN open = << >> /\ Paired(Tail(lines), name, DropLast(Head(lines), 6) \o Str("END\n"))
       ELSE IF IsEndOf(Head(lines), name)
            THEN open = Head(lines) /\ Paired(Tail(lines), name, << >>)
            ELSE Paired(Tail(lines), name, open)

WellFormedBlocks(lines, name) == Begins(lines, name) # {} /\ Paired(lines, name, << >>)

Contains(s, part) ==
  \E i \in 0..(Len(s) - Len(part)) : SubSeq(s, i + 1, i + Len(part)) = part

\* the body of a layout as a block holds it
BlockBody(layout) == rstrip(Join(DropIgnored(PatternLines(layout.xkb_symbols)))) \o << LF >>

-----------------------------------------------------------------------------
(* C1: committing the same Index twice in a row leaves every symbols file and *)
(* every rules shard as the first commit left them: when update() returned,   *)
(* the same Index is populated again and update() returns again, no file      *)
(* differs.                                                                   *)
C1_Idempotent ==
  [][ ( /\ commits' = commits + 1
        /\ outcome = Returned
        /\ outcome' = Returned
        /\ index = committed.index
        /\ index # << >> )
      => (symbols' = symbols /\ rules' = rules) ]_vars

\* no line of the file is a begin marker the mapping has a key for
NoKeyRecognized(lines, named_layouts) ==
  \A i \in 1..Len(lines) :
    LET name == is_new_symbol_mark(lines[i])
    IN  ~(Truthy(name) /\ name.name \in Keys(named_layouts))

Appended(locale) == SplitLines(DropFirst(symbols[locale].content, Len(ContentBefore(locale))))

(* C2: when no key of the mapping is the recognized name of a begin marker of *)
(* the file, update_symbols_locale keeps the previous content as a prefix of  *)
(* the file and appends exactly one begin/end marker pair for each key with a *)
(* Definition, nothing for a key with a Tombstone.                            *)
C2_NonDestructive ==
  \A locale \in Locales :
    (Rewritten(locale) /\ NoKeyRecognized(LinesBefore(locale), Committed(locale)))
    => LET appended    == Appended(locale)
           definitions == Definitions(Committed(locale))
       IN  /\ StartsWith(symbols[locale].content, ContentBefore(locale))
           /\ \A k \in definitions :
                /\ Cardinality({ i \in 1..Len(appended) :
                                 appended[i] = get_symbol_mark(k).begin }) = 1
                /\ Cardinality({ i \in 1..Len(appended) :
                                 appended[i] = get_symbol_mark(k).end }) = 1
           /\ Cardinality({ i \in 1..Len(appended) : EndsWith(appended[i], BEGIN) })
                = Cardinality(definitions)
           /\ Cardinality({ i \in 1..Len(appended) : EndsWith(appended[i], END) })
                = Cardinality(definitions)
           /\ definitions = {} => symbols[locale].content = ContentBefore(locale)

\* a file with a block and unrelated lines got a new block and a Tombstone
C2_Witness ==
  /\ Rewritten(FR)
  /\ NoKeyRecognized(LinesBefore(FR), Committed(FR))
  /\ Definitions(Committed(FR)) # {}
  /\ Tombstones(Committed(FR)) # {}
  /\ \E i \in 1..Len(LinesBefore(FR)) : Truthy(is_new_symbol_mark(LinesBefore(FR)[i]))
  /\ \E i \in 1..Len(LinesBefore(FR)) : LinesBefore(FR)[i] = Str("p\n")

(* C3: for a lower-case variant name V whose marker lines in the file pair up *)
(* into one or more blocks, update_symbols_locale with V mapped to a          *)
(* Definition leaves exactly one begin marker and one end marker of V, which  *)
(* enclose the new body; with V mapped to a Tombstone it leaves none.         *)
C3_ReplaceWithoutDuplication ==
  \A locale \in Locales :
    Rewritten(locale) =>
      LET before == LinesBefore(locale)
          after  == LinesAfter(locale)
      IN  \A name \in Keys(Committed(locale)) :
            (name = lower(name) /\ WellFormedBlocks(before, name))
            => IF Lookup(Committed(locale), name).isNone
               THEN Begins(after, name) = {} /\ Ends(after, name) = {}
               ELSE /\ Cardinality(Begins(after, name)) = 1
                    /\ Cardinality(Ends(after, name)) = 1
                    /\ Contains(symbols[locale].content,
                                get_symbol_mark(name).begin
                                  \o BlockBody(Lookup(Committed(locale), name))
                                  \o get_symbol_mark(name).end)

(* C4: marker names are matched without regard to letter case: the block that *)
(* get_symbol_mark(K) opens is recognized as the block of K, for every name K *)
(* of the Index, so a begin marker written for K by a commit has K as its     *)
(* recognized name.                                                           *)
C4_CaseInsensitive ==
  \A locale \in Locales :
    Rewritten(locale) =>
      \A k \in Definitions(Committed(locale)) :
        \A i \in 1..Len(LinesAfter(locale)) :
          LinesAfter(locale)[i] = get_symbol_mark(k).begin
          => is_new_symbol_mark(LinesAfter(locale)[i]).name = k

\* the tree of a shard as the last call of update() found it
TreeBefore(filename) == committed.rules[filename].tree

\* the variantList of the layout node update_rules works on, << >> for a
\* locale that has no layout node
VariantList(tree, locale) ==
  IF LayoutsNamed(tree, locale) = {} THEN << >>
  ELSE tree[LocaleNode(tree, locale)].variantLists[1]

Named(variant_list, names) == SelectSeq(variant_list, LAMBDA v : v.name \in names)

NotNamed(variant_list, names) == SelectSeq(variant_list, LAMBDA v : v.name \notin names)

(* C5: after update_rules commits a Definition for (L, V) to a shard, the     *)
(* variantList of L holds exactly one node named V, that node is the last of  *)
(* the list and carries the Definition's description, and the other nodes of  *)
(* L keep their relative order and content.                                   *)
C5_LastNode ==
  \A filename \in {BASE_XML, EVDEV_XML} :
    Written(filename) =>
      \A locale \in CommittedLocales :
        \A name \in Definitions(Committed(locale)) :
          LET vlist == VariantList(rules[filename].tree, locale)
          IN  /\ Len(Named(vlist, {name})) = 1
              /\ vlist[Len(vlist)] = Variant(name, Lookup(Committed(locale), name).description)
              /\ NotNamed(vlist, {name})
                   = NotNamed(VariantList(TreeBefore(filename), locale), {name})

\* the variant nodes add_rules_variant makes of the Definitions of a mapping
DefinitionNodes(named_layouts) ==
  LET defs == SelectSeq(named_layouts, LAMBDA item : ~item.v.isNone)
  IN  [i \in 1..Len(defs) |-> Variant(defs[i].k, defs[i].v.description)]

(* C5, amended: the list holds exactly one node named V, with the             *)
(* Definition's description; the nodes of the Definitions the Index holds for *)
(* L are the last nodes of the list, in the order of the Index; the nodes     *)
(* whose name is no key of the Index keep their relative order and content.   *)
C5_ReplaceByAppend ==
  \A filename \in {BASE_XML, EVDEV_XML} :
    Written(filename) =>
      \A locale \in CommittedLocales :
        LET vlist == VariantList(rules[filename].tree, locale)
            nodes == DefinitionNodes(Committed(locale))
            kept  == NotNamed(VariantList(TreeBefore(filename), locale), Keys(Committed(locale)))
        IN  /\ \A name \in Definitions(Committed(locale)) :
                 Named(vlist, {name})
                   = << Variant(name, Lookup(Committed(locale), name).description) >>
            /\ vlist = kept \o nodes

\* "a" was in the list twice, and is committed with another variant after it
C5_Witness ==
  /\ Written(BASE_XML)
  /\ FR \in CommittedLocales
  /\ Definitions(Committed(FR)) = {Str("a"), Str("B")}
  /\ Len(Named(VariantList(TreeBefore(BASE_XML), FR), {Str("a")})) = 2
  /\ Len(Named(VariantList(rules[BASE_XML].tree, FR), {Str("a")})) = 1

(* C6: update() with an empty Index writes no rules shard and writes or       *)
(* creates no symbols file.                                                   *)
C6_NoWriteWithoutChanges ==
  (Called /\ committed.index = << >>)
  => (log = << >> /\ rules = committed.rules /\ symbols = committed.symbols)

\* the positions in the log of the events of an operation on a file
Events(op, file) == { i \in 1..Len(log) : log[i].op = op /\ log[i].file = file }

SymbolsEvents == { i \in 1..Len(log) : log[i].op \in {"create", "update_symbols_locale"} }

RulesBeforeSymbols ==
  /\ \A i \in 1..Len(log) : \A j \in SymbolsEvents :
       log[i].op \in {"write", "truncate"} => i < j
  /\ \A i \in Events("write", RulesPath(BASE_XML)) :
       \A j \in Events("write", RulesPath(EVDEV_XML)) : i < j

(* C7: in every execution of update(), the writes of the rules shards         *)
(* (base.xml, then evdev.xml) come before the first creation or rewrite of a  *)
(* symbols file, and update_symbols_locale is invoked exactly once for each   *)
(* locale of the Index and for no other locale.                               *)
C7_CommitOrdering ==
  Called =>
    /\ RulesBeforeSymbols
    /\ \A locale \in Locales :
         Cardinality(Events("update_symbols_locale", SymbolsPath(locale)))
           = IF locale \in CommittedLocales THEN 1 ELSE 0

(* C7, amended: the order holds in every execution, update_symbols_locale is  *)
(* invoked at most once for a locale of the Index and never for another, and  *)
(* exactly once for each locale of the Index when update() returns.           *)
C7_Ordering ==
  Called =>
    /\ RulesBeforeSymbols
    /\ \A locale \in Locales :
         /\ Cardinality(Events("update_symbols_locale", SymbolsPath(locale))) <= 1
         /\ locale \notin CommittedLocales
              => Events("update_symbols_locale", SymbolsPath(locale)) = {}
         /\ (outcome = Returned /\ locale \in CommittedLocales)
              => Cardinality(Events("update_symbols_locale", SymbolsPath(locale))) = 1

\* both shards were written, a symbols file was created, two locales were served
C7_Witness ==
  /\ outcome = Returned
  /\ Written(BASE_XML) /\ Written(EVDEV_XML)
  /\ CommittedLocales = {FR, DE}
  /\ Events("create", SymbolsPath(DE)) # {}
  /\ Events("update_symbols_locale", SymbolsPath(FR)) # {}

(* C8: whenever update() ends, with or without a failure, the Index is empty. *)
C8_IndexCleared == [][commits' # commits => index' = << >>]_vars

\* the (locale, variant) pairs an index holds
Pairs(kb_index) ==
  { <<l, v>> \in Locales \X {Str("a"), Str("B"), LAFAYETTE} : HasItem(kb_index, l, v) }

Value(kb_index, pair) == Lookup(Lookup(kb_index, pair[1]), pair[2])

RECURSIVE NoDuplicateKey(_)
NoDuplicateKey(d) ==
  d = << >> \/ (Head(d).k \notin Keys(Tail(d)) /\ NoDuplicateKey(Tail(d)))

LastWriteWins ==
  index' # index /\ commits' = commits =>
    /\ NoDuplicateKey(index') /\ \A i \in 1..Len(index') : NoDuplicateKey(index'[i].v)
    /\ \E pair \in Pairs(index') :
         /\ Pairs(index') = Pairs(index) \cup {pair}
         /\ \A other \in Pairs(index) \ {pair} : Value(index', other) = Value(index, other)
         /\ \/ Value(index', pair) = None
            \/ /\ Value(index', pair) \in Layouts
               /\ Value(index', pair).locale = pair[1]
               /\ Value(index', pair).variant = pair[2]

\* the marker lines that name the variant, in any letter case
BlocksOf(locale, name) == Begins(LinesAfter(locale), lower(name))

CommittedToStores ==
  outcome = Returned =>
    \A locale \in CommittedLocales :
      \A name \in Keys(Committed(locale)) :
        LET expected == IF Lookup(Committed(locale), name).isNone THEN 0 ELSE 1
        IN  /\ Cardinality(BlocksOf(locale, name)) = expected
            /\ \A filename \in {BASE_XML, EVDEV_XML} :
                 rules[filename].exists =>
                   Len(Named(VariantList(rules[filename].tree, locale), {name})) = expected

(* C9: in the Index each (locale, variant) pair appears once and holds the    *)
(* value of the last add or remove for it, calls for other pairs leave it     *)
(* alone; so a committed Tombstone leaves the variant absent from both        *)
(* stores, and a committed Definition leaves exactly one metadata node and    *)
(* one block of it.                                                           *)
C9_LastWriteWins == [][LastWriteWins]_vars /\ []CommittedToStores

(* C10: a locale that has no layout node in a shard is not changed in that    *)
(* shard by the commit.                                                       *)
C10_OnlyWhereLayoutExists ==
  \A filename \in {BASE_XML, EVDEV_XML} :
    Written(filename) =>
      \A locale \in CommittedLocales :
        LayoutsNamed(TreeBefore(filename), locale) = {}
        => LayoutsNamed(rules[filename].tree, locale) = {}

(* C10, amended: each existing shard gets the Index applied to its own tree:  *)
(* a shard that does not exist is not created; a locale of the Index without  *)
(* a layout node in the shard gets one, appended after the nodes of the       *)
(* shard, whose single variantList holds the Definitions of the Index for the *)
(* locale in the order of the Index; the layout nodes of locales that are not *)
(* in the Index stay as they were.                                            *)
C10_EachShardOnItsOwn ==
  \A filename \in {BASE_XML, EVDEV_XML} :
    /\ (Called /\ ~committed.rules[filename].exists) => rules[filename] = committed.rules[filename]
    /\ Written(filename) =>
         LET old == TreeBefore(filename)
             new == rules[filename].tree
         IN  /\ \A locale \in CommittedLocales :
                  LayoutsNamed(old, locale) = {}
                  => /\ Cardinality(LayoutsNamed(new, locale)) = 1
                     /\ \A i \in LayoutsNamed(new, locale) :
                          /\ i > Len(old)
                          /\ new[i].variantLists = << DefinitionNodes(Committed(locale)) >>
             /\ \A i \in 1..Len(old) :
                  old[i].name \notin CommittedLocales => new[i] = old[i]

\* "fr" had a layout node in base.xml only, and both shards were written
C10_Witness ==
  /\ Written(BASE_XML) /\ Written(EVDEV_XML)
  /\ FR \in CommittedLocales
  /\ Definitions(Committed(FR)) # {}
  /\ LayoutsNamed(TreeBefore(BASE_XML), FR) # {}
  /\ LayoutsNamed(TreeBefore(EVDEV_XML), FR) = {}
  /\ LayoutsNamed(rules[EVDEV_XML].tree, FR) # {}

(* C11: every failure raised while a rules shard or a symbols file is being   *)
(* processed ends update() either with the permission error, raised again as  *)
(* it was, or with a process-terminating error whose message names the path   *)
(* of the file the failure was raised at.                                     *)
C11_FailureClassification ==
  \A i \in 1..Len(log) :
    log[i].op = "raise" =>
      \/ outcome.exc = "PermissionError"
      \/ outcome.exc # "PermissionError" /\ Contains(outcome.message, log[i].file)

\* the (locale, variant) pairs of an Index
PairsOf(kb_index) ==
  UNION { { <<kb_index[i].k, kb_index[i].v[j].k>> : j \in 1..Len(kb_index[i].v) } :
          i \in 1..Len(kb_index) }

\* the (locale, variant) pairs the variant nodes of a tree declare
DeclaredIn(tree) ==
  UNION { UNION { { <<tree[i].name, tree[i].variantLists[j][k].name>> :
                    k \in 1..Len(tree[i].variantLists[j]) } :
                  j \in 1..Len(tree[i].variantLists) } :
          i \in 1..Len(tree) }

Declared ==
  UNION { IF rules[f].exists THEN DeclaredIn(rules[f].tree) ELSE {} : f \in {BASE_XML, EVDEV_XML} }

\* a mask "", "*", "L" or "L/V", "*" standing for any name in a segment
MaskMatches(mask, locale, variant) ==
  LET n == FindSlash(mask, 1)
  IN  IF mask \in {<< >>, ANY} THEN TRUE
      ELSE IF n = 0 THEN mask = locale
      ELSE /\ SubSeq(mask, 1, n - 1) \in {ANY, locale}
           /\ DropFirst(mask, n) \in {ANY, variant}

\* the mask has one of the forms "", "*", "L", "L/V"
PlainMask(mask) == FindSlash(mask, 1) = 0 \/ FindSlash(mask, FindSlash(mask, 1) + 1) = 0

(* C12: list_all(mask) returns exactly the (locale, variant) pairs that a     *)
(* variant node of an existing rules shard declares and that the mask         *)
(* matches, each once: every pair for "" and "*", the variants of L for "L",  *)
(* variant V of locale L for "L/V", "*" standing for any name in a segment;   *)
(* the symbols files play no part in it.                                      *)
C12_MaskFiltering ==
  (listed.op = "list_all" /\ PlainMask(listed.mask)) =>
    /\ PairsOf(listed.result)
         = { pair \in Declared : MaskMatches(listed.mask, pair[1], pair[2]) }
    /\ NoDuplicateKey(listed.result)
    /\ \A i \in 1..Len(listed.result) : NoDuplicateKey(listed.result[i].v)

\* a mask "L/V" picked one pair out of the variants two shards declare
C12_Witness ==
  /\ listed.op = "list_all"
  /\ listed.mask = Str("fr/a")
  /\ PairsOf(listed.result) = {<<FR, Str("a")>>}
  /\ rules[BASE_XML].exists /\ rules[EVDEV_XML].exists
  /\ <<FR, Str("B")>> \in Declared /\ <<Str("us"), Str("a")>> \in Declared
  /\ symbols[FR].exists

\* a line of the symbols file of the locale is recognized as the begin marker
\* of the name
HasBeginMarker(locale, name) ==
  /\ SymbolsExists(symbols, locale)
  /\ \E i \in 1..Len(LinesAfter(locale)) :
       is_new_symbol_mark(LinesAfter(locale)[i]) = [isNone |-> FALSE, name |-> name]

(* C13: a pair (L, V) is in list(mask) if and only if it is in                *)
(* list_all(mask), the symbols file of L exists and a line of it is           *)
(* recognized as a begin marker with name V; no locale is in the result with  *)
(* an empty variant map.                                                      *)
C13_DriftDetection ==
  listed.op = "list" =>
    /\ PairsOf(listed.result)
         = { pair \in PairsOf(list_all(listed.mask)) : HasBeginMarker(pair[1], pair[2]) }
    /\ \A i \in 1..Len(listed.result) : listed.result[i].v # << >>

\* of the declared variants one has a block, one has none in the file of its
\* locale, and one is of a locale without a symbols file
C13_Witness ==
  /\ listed.op = "list"
  /\ listed.mask = << >>
  /\ <<FR, Str("a")>> \in PairsOf(listed.result)
  /\ <<FR, LAFAYETTE>> \in PairsOf(list_all(<< >>)) \ PairsOf(listed.result)
  /\ <<DE, Str("a")>> \in PairsOf(list_all(<< >>)) \ PairsOf(listed.result)
  /\ symbols[FR].exists /\ ~symbols[DE].exists

\* the last call of update() installed (locale, name), and nothing else, on
\* empty rules trees and without a symbols file of the locale
InstalledFromEmpty(locale, name) ==
  /\ Called /\ outcome = Returned
  /\ \E f \in {BASE_XML, EVDEV_XML} : committed.rules[f].exists
  /\ \A f \in {BASE_XML, EVDEV_XML} : committed.rules[f].tree = << >>
  /\ ~committed.symbols[locale].exists
  /\ Keys(committed.index) = {locale}
  /\ Keys(Committed(locale)) = {name}
  /\ ~Lookup(Committed(locale), name).isNone

\* one layout node with one variant, one block of the name, and list() has it
RoundTripInstalled(locale, name) ==
  /\ \A f \in {BASE_XML, EVDEV_XML} :
       rules[f].exists =>
         rules[f].tree
           = << Layout(locale, << << Variant(name, Lookup(Committed(locale), name).description) >> >>) >>
  /\ symbols[locale].exists
  /\ Cardinality(Begins(LinesAfter(locale), lower(name))) = 1
  /\ Cardinality(Ends(LinesAfter(locale), lower(name))) = 1
  /\ <<locale, name>> \in PairsOf(list(<< >>))

\* no variant node, no marker line of the name, and list() has it not
RoundTripRemoved(tree_files, symbols_files, locale, name) ==
  /\ \A f \in {BASE_XML, EVDEV_XML} : <<locale, name>> \notin DeclaredIn(tree_files[f].tree)
  /\ Begins(SplitLines(symbols_files[locale].content), lower(name)) = {}
  /\ Ends(SplitLines(symbols_files[locale].content), lower(name)) = {}
  /\ <<locale, name>> \notin PairsOf(list_symbols(symbols_files, list_rules(tree_files, << >>)))

RoundTripNames == {Str("a"), Str("B")}

(* C14: from empty rules trees and no symbols file of L, add of a Definition  *)
(* for (L, V) and update() leave one layout node L with one variant V, one    *)
(* block named V in the symbols file of L, and (L, V) in list(); remove(L, V) *)
(* and update() after that leave no variant node V, no marker line of V in    *)
(* the file, and (L, V) not in list().                                        *)
C14_RoundTrip ==
  /\ [](\A locale \in Locales : \A name \in RoundTripNames :
          InstalledFromEmpty(locale, name) => RoundTripInstalled(locale, name))
  /\ [][\A locale \in Locales : \A name \in RoundTripNames :
          ( /\ InstalledFromEmpty(locale, name)
            /\ index = << [k |-> locale, v |-> << [k |-> name, v |-> None] >>] >>
            /\ commits' = commits + 1
            /\ outcome' = Returned )
          => RoundTripRemoved(rules', symbols', locale, name)]_vars

\* the lines of part are consecutive lines of lines
HoldsLines(lines, part) ==
  \E i \in 0..(Len(lines) - Len(part)) : SubSeq(lines, i + 1, i + Len(part)) = part

\* lines hold one block of the name: one begin marker, its end marker after it
OneBlock(lines, name) ==
  /\ Cardinality(Begins(lines, name)) = 1
  /\ Cardinality(Ends(lines, name)) = 1
  /\ Min(Begins(lines, name)) < Min(Ends(lines, name))

\* the lines of that block, markers included
BlockLines(lines, name) == SubSeq(lines, Min(Begins(lines, name)), Min(Ends(lines, name)))

\* lines hold one block of each name, one after the other
TwoBlocks(lines, one, other) ==
  /\ OneBlock(lines, one) /\ OneBlock(lines, other)
  /\ \/ Min(Ends(lines, one)) < Min(Begins(lines, other))
     \/ Min(Ends(lines, other)) < Min(Begins(lines, one))

\* a line ending in "::END" that is no end marker of the name lies between the
\* markers of a block of the name
ForeignEndInside(lines, name) ==
  \E b \in Begins(lines, name), f \in 1..Len(lines), e \in Ends(lines, name) :
    /\ b < f /\ f < e
    /\ EndsWith(lines[f], END)
    /\ ~IsEndOf(lines[f], name)

(* C15: an "::END" line with another prefix inside a block that is dropped    *)
(* does not close it, the drop goes on to the end marker of the block, which  *)
(* is dropped with it; and in a file that holds a legacy block and a block of *)
(* the current format with another name, one after the other, the removal of  *)
(* one of them drops that block and leaves the lines of the other in the file.*)
C15_MarkerDisambiguation ==
  Rewritten(FR) =>
    /\ \A name \in Tombstones(Committed(FR)) :
         ( /\ name = lower(name)
           /\ WellFormedBlocks(LinesBefore(FR), name)
           /\ ForeignEndInside(LinesBefore(FR), name) )
         => Ends(LinesAfter(FR), name) = {}
    /\ \A one, other \in {Str("a"), LAFAYETTE} :
         ( /\ one # other
           /\ TwoBlocks(LinesBefore(FR), one, other)
           /\ Keys(Committed(FR)) = {one}
           /\ Tombstones(Committed(FR)) = {one} )
         => /\ Begins(LinesAfter(FR), one) = {} /\ Ends(LinesAfter(FR), one) = {}
            /\ HoldsLines(LinesAfter(FR), BlockLines(LinesBefore(FR), other))

\* the positions of the lines of the blocks of the name: from a begin marker
\* through the first end marker of the name after it
Span(lines, name) ==
  { i \in 1..Len(lines) :
      \E b \in Begins(lines, name), e \in Ends(lines, name) :
        /\ b <= i /\ i <= e
        /\ \A e2 \in Ends(lines, name) : e2 > b => e <= e2 }

\* the positions of the lines of the blocks of the keys of the mapping
Spans(lines, named_layouts) == UNION { Span(lines, name) : name \in Keys(named_layouts) }

(* C16: of a block whose begin marker is recognized with a key of the mapping *)
(* no line, from the begin marker through its end marker, is a line of the    *)
(* rewritten file, whatever the content of the block: here for the removal of *)
(* lower-case names, and for the lines that the file holds in such blocks     *)
(* only.                                                                      *)
C16_WholeBlockDrop ==
  \A locale \in Locales :
    (Rewritten(locale) /\ Definitions(Committed(locale)) = {}) =>
      \A name \in Keys(Committed(locale)) :
        (name = lower(name) /\ WellFormedBlocks(LinesBefore(locale), name)) =>
          \A i \in Span(LinesBefore(locale), name) :
            (\A j \in (1..Len(LinesBefore(locale))) \ Spans(LinesBefore(locale), Committed(locale)) :
               LinesBefore(locale)[j] # LinesBefore(locale)[i])
            => \A j \in 1..Len(LinesAfter(locale)) :
                 LinesAfter(locale)[j] # LinesBefore(locale)[i]

\* a is b without some of its elements
RECURSIVE IsSubsequence(_, _)
IsSubsequence(a, b) ==
  IF a = << >> THEN TRUE
  ELSE IF b = << >> THEN FALSE
  ELSE IF Head(a) = Head(b) THEN IsSubsequence(Tail(a), Tail(b))
  ELSE IsSubsequence(a, Tail(b))

\* a line as a complete line: with the newline the last line of a file may lack
Complete(line) == IF EndsWith(line, << LF >>) THEN line ELSE line \o << LF >>

\* the lines at the positions from i on that are in no block of a key of the
\* mapping and are not blank, as complete lines
RECURSIVE Untouched(_, _, _)
Untouched(lines, named_layouts, i) ==
  IF i > Len(lines) THEN << >>
  ELSE (IF i \in Spans(lines, named_layouts) \/ rstrip(lines[i]) = << >>
        THEN << >> ELSE << Complete(lines[i]) >>)
         \o Untouched(lines, named_layouts, i + 1)

\* the blocks of the keys of the mapping that the file holds are well formed,
\* and their names are lower-case
DropsBlocks(lines, named_layouts) ==
  /\ ~NoKeyRecognized(lines, named_layouts)
  /\ \A name \in Keys(named_layouts) :
       /\ name = lower(name)
       /\ Begins(lines, name) \cup Ends(lines, name) # {} => WellFormedBlocks(lines, name)

(* C17: when update_symbols_locale drops blocks, the blocks of the names that *)
(* are no key of the mapping and the unrelated lines that are not blank are   *)
(* lines of the rewritten file, complete and in the same order, also when a   *)
(* dropped block is directly followed by the next line.                       *)
C17_UntouchedSurvives ==
  \A locale \in Locales :
    (Rewritten(locale) /\ DropsBlocks(LinesBefore(locale), Committed(locale))) =>
      IsSubsequence(Untouched(LinesBefore(locale), Committed(locale), 1), LinesAfter(locale))

\* the files after one commit of kb_index without a failure, from the files
\* tree_files and symbols_files
CommitOf(tree_files, symbols_files, kb_index) ==
  update_symbols(
    update_rules([rules |-> tree_files, symbols |-> symbols_files, log |-> << >>, outcome |-> Running],
                 kb_index, NoFault),
    kb_index, NoFault)

\* the last call of update() failed after it had written a file
PartialCommit ==
  /\ Called
  /\ outcome.status = "raised"
  /\ \E i \in 1..Len(log) :
       log[i].op \in {"write", "truncate", "create", "update_symbols_locale"}

\* the failure that ended the last call was raised at the file
FailedAt(path) == \E i \in 1..Len(log) : log[i] = [op |-> "raise", file |-> path]

\* each file but the one of the failure is as it was before the failed commit,
\* or as a commit without a failure leaves it
WrittenOrUntouched ==
  LET whole == CommitOf(committed.rules, committed.symbols, committed.index)
  IN  /\ \A f \in {BASE_XML, EVDEV_XML} :
           FailedAt(RulesPath(f)) \/ rules[f] \in {committed.rules[f], whole.rules[f]}
      /\ \A l \in Locales :
           FailedAt(SymbolsPath(l)) \/ symbols[l] \in {committed.symbols[l], whole.symbols[l]}

(* C18: after a commit that failed at a file when earlier files were written, *)
(* each file but the one of the failure holds its committed content or is as  *)
(* it was; and the same Index committed again without a failure leaves every  *)
(* shard and every symbols file as one commit without a failure leaves them   *)
(* from the state before the failed commit.                                   *)
C18_Convergence ==
  /\ [](PartialCommit => WrittenOrUntouched)
  /\ [][( /\ PartialCommit
          /\ index = committed.index
          /\ commits' = commits + 1
          /\ outcome' = Returned )
        => LET whole == CommitOf(committed.rules, committed.symbols, committed.index)
           IN  rules' = whole.rules /\ symbols' = whole.symbols]_vars

\* the layout node get_rules_locale returns for a locale of the Index in the
\* shard does not have exactly one variantList
Inconsistent(shard, kb_index) ==
  /\ shard.exists
  /\ \E locale \in Keys(kb_index) :
       /\ LayoutsNamed(shard.tree, locale) # {}
       /\ Len(shard.tree[LocaleNode(shard.tree, locale)].variantLists) # 1

\* the shards before and after the shard at position n of Filenames
ShardsBefore(n) == { Filenames[m] : m \in 1..(n - 1) }

ShardsAfter(n) == { Filenames[m] : m \in (n + 1)..Len(Filenames) }

(* C19: when the layout node found for a locale of the Index in a shard does  *)
(* not have exactly one variantList, update() ends the process with an error  *)
(* that names the shard; the shard is not written and stays as it was, also   *)
(* when the tree in memory was changed for earlier locales; no later shard    *)
(* and no symbols file is touched.                                            *)
C19_InconsistencyFatal ==
  \A n \in 1..Len(Filenames) :
    ( /\ Called
      /\ Inconsistent(committed.rules[Filenames[n]], committed.index)
      /\ \A f \in ShardsBefore(n) : Written(f) \/ ~committed.rules[f].exists )
    => /\ outcome = Raised("SystemExit", Str("Error: unexpected xml format in ")
                                           \o RulesPath(Filenames[n]) \o Str("."))
       /\ index = committed.index
       /\ ~Written(Filenames[n])
       /\ rules[Filenames[n]] = committed.rules[Filenames[n]]
       /\ \A f \in ShardsAfter(n) : ~Written(f) /\ rules[f] = committed.rules[f]
       /\ symbols = committed.symbols
       /\ SymbolsEvents = {}

\* evdev.xml has no variantList for "fr"; "de" came first in the Index and got
\* its variant in memory; base.xml was written before
C19_Witness ==
  /\ Called
  /\ Inconsistent(committed.rules[EVDEV_XML], committed.index)
  /\ Written(BASE_XML)
  /\ Len(committed.index) = 2
  /\ committed.index[1].k = DE /\ Definitions(Committed(DE)) # {}
  /\ committed.index[2].k = FR
  /\ outcome.exc = "SystemExit"
  /\ rules[EVDEV_XML] = committed.rules[EVDEV_XML]

\* a step deletes no layout node of a shard, no shard and no symbols file, and
\* leaves the layout nodes of the locales that are not in the Index as they are
ContainersKept ==
  /\ \A f \in {BASE_XML, EVDEV_XML} :
       rules[f].exists =>
         /\ rules'[f].exists
         /\ Len(rules'[f].tree) >= Len(rules[f].tree)
         /\ \A i \in 1..Len(rules[f].tree) :
              /\ rules'[f].tree[i].name = rules[f].tree[i].name
              /\ rules[f].tree[i].name \notin Keys(index) => rules'[f].tree[i] = rules[f].tree[i]
  /\ \A l \in Locales : symbols[l].exists => symbols'[l].exists

\* a commit that held Tombstones only for a locale has left the layout node of
\* the locale in every shard, and its symbols file
TombstonesLeaveContainers ==
  \A locale \in Locales :
    (Called /\ outcome = Returned /\ locale \in CommittedLocales
       /\ Definitions(Committed(locale)) = {})
    => /\ \A f \in {BASE_XML, EVDEV_XML} :
            rules[f].exists => LayoutsNamed(rules[f].tree, locale) # {}
       /\ symbols[locale].exists

(* C20: no add, remove or update takes a layout node out of a rules shard or  *)
(* deletes a symbols file; a commit of Tombstones for the variants of a       *)
(* locale leaves the layout node of the locale and its symbols file in place; *)
(* the layout nodes of the locales that are not in the Index stay as they are.*)
C20_ContainersNeverDeleted == [][ContainersKept]_vars /\ []TombstonesLeaveContainers

====
